---- MODULE Spec2Model ----
(***************************************************************************)
(* The word clock sketch, version 0.3 (wordclock.ino): the segment         *)
(* catalog, the time-to-words mapper (handleDisplayTime), the command      *)
(* interpreter (handleIRresults / evaluateIRResult), the render pass       *)
(* (handleLeds) and the timer tick (ISR(TIMER1_COMPA_vect)).               *)
(*                                                                         *)
(* Colours of the pixel buffer are numbers: Black, a hue 0..255 (a pixel   *)
(* set by setHue), or White.  Table indices are the C indices (from 0).    *)
(***************************************************************************)
EXTENDS Integers, Sequences, FiniteSets, TLC

\* ------------------------------------------------------------------------
\* Program constants (#define lines of wordclock.ino)
\* ------------------------------------------------------------------------
LED_PIXELS == 121
LED_ROWS == 11
LED_COLUMNS == 11
LED_MODE_NORMAL == 0
LED_MODE_RAINBOW == 1
LED_MODE_RAINBOW_GLITTER == 2
LED_MODE_CONFETTI == 3
LED_MODE_SINELON == 4
LED_MODE_BPM == 5
LED_MODE_JUGGLE == 6
LED_MODE_MATRIX == 7
LED_BRIGHTNESS_STEP == 10
LED_HUE_STEP == 10
RTC_ALIVE_FROM == 6
RTC_ALIVE_TO == 23
RTC_WAKE_UP_HRS == 6
RTC_WAKE_UP_MINS == 0
MIN_STEP == 5
MIN_PARTS == 6
IR_PAUSE == 3

\* remote control codes: the lower 16 bits of the 32-bit values 0xFA00XXXX
IR_ZERO == 12268
IR_ONE == 12232
IR_TWO == 12264
IR_THREE == 12248
IR_FOUR == 12280
IR_FIVE == 12228
IR_SIX == 12260
IR_SEVEN == 12244
IR_VOL_UP == 12284
IR_VOL_DOWN == 12252
IR_UP == 12238
IR_DOWN == 12278
IR_POWER == 12240
IR_AUTO_HUE == 12246
IR_AUTO_BRIGHTNESS == 12266
\* the upper 16 bits every value of the remote control carries (0xFA00)
IR_PREFIX == 64000

\* width of uint8_t: hue, brightness, irCtr, fps, ledMode
Byte == 256
\* largest brightness increaseBrightness lets a command set
MaxBrightness == 200
\* turning points of the auto-cycle brightness step of handleLeds
AutoBrightnessHigh == 180
AutoBrightnessLow == 2

\* ------------------------------------------------------------------------
\* Bounds of the model
\* ------------------------------------------------------------------------
\* timer ticks one behaviour takes (irCtr is a free-running counter)
MaxTicks == 2
\* number of bytes an out-of-table Word read hands to setColorForWord
MaxGarbageLen == 1
\* number of dots of juggle() that fall on distinct sampled pixels
MaxDots == 2
\* timer ticks one behaviour of the brightness specification takes
BrightTicks == 40
\* timer ticks one behaviour of the volume-key and of the hue-key
\* specification takes
VolumeTicks == 2
HueTicks == 2
\* render passes of one behaviour that find millis() % 20 == 0 at the
\* brightness step, and at the hue step
MaxAutoSteps == 2
MaxHueSteps == 2
\* ticks of a run that toggles the schedule
ScheduleTicks == 2
\* the value irCtr counts up to in a run with signals of several protocols
PauseTicks == 4
\* the value irCtr counts up to in a run that sleeps and wakes
SleepTicks == 3
\* timer ticks one behaviour of the command specification takes
CommandTicks == 2
\* timer ticks without a cooldown restarting the count, and signals captured,
\* in the runs on the mode
ModeTicks == 3
ModeKeys == 3
\* timer ticks past a start or a wrap of the tick counter, in the runs on the
\* tick handler
TickTicks == 2
\* timer ticks without a cooldown restarting the count, in the runs on the
\* guard flags
GuardTicks == 2
\* timer ticks without a cooldown restarting the count, and signals captured,
\* in the runs on commands that arrive during a cooldown
CutTicks == 3
CutKeys == 2
\* timer ticks in the runs on the upper half of a decoded value
LowTicks == 2
\* timer ticks and signals captured in the runs with ticks inside
\* handleIRresults
RaceTicks == 3
RaceKeys == 2

\* ------------------------------------------------------------------------
\* Colours
\* ------------------------------------------------------------------------
Black == 0 - 1
White == 256
\* a colour an animation computed: a faded, blended or palette colour.  The
\* levels of fading are not counted: a pixel that was lit stays Tint.
Tint == White + 1

Pixels == 0 .. (LED_PIXELS - 1)

\* ------------------------------------------------------------------------
\* Segment catalog
\* ------------------------------------------------------------------------
WORD(s, a) == [text |-> s, leds |-> a]

A_IT == <<0, 1>>
IT == WORD("IT", A_IT)

A_IS == <<3, 4>>
IS == WORD("IS", A_IS)

A_M5 == <<29, 30, 31, 32>>
A_M10 == <<21, 20, 19>>
A_M15 == <<7, 17, 16, 15, 14, 13, 12, 11>>
A_M20 == <<23, 24, 25, 26, 27, 28>>
A_M25 == <<23, 24, 25, 26, 27, 28, 29, 30, 31, 32>>
A_M30 == <<6, 7, 8, 9>>
W_MINS ==
  << WORD("M5", A_M5), WORD("M10", A_M10), WORD("M15", A_M15),
     WORD("M20", A_M20), WORD("M25", A_M25), WORD("M30", A_M30) >>

A_TO == <<43, 42>>
TO == WORD("TO", A_TO)

A_PAST == <<41, 40, 39, 38>>
PAST == WORD("PAST", A_PAST)

A_H12 == <<60, 59, 58, 57, 56, 55>>
A_H1 == <<73, 74, 75>>
A_H2 == <<48, 49, 50>>
A_H3 == <<65, 64, 63, 62, 61>>
A_H4 == <<36, 35, 34, 33>>
A_H5 == <<44, 45, 46, 47>>
A_H6 == <<92, 93, 94>>
A_H7 == <<87, 86, 85, 84, 83>>
A_H8 == <<81, 80, 79, 78, 77>>
A_H9 == <<51, 52, 53, 54>>
A_H10 == <<89, 90, 91>>
A_H11 == <<67, 68, 69, 70, 71, 72>>
W_HOURS ==
  << WORD("H12", A_H12), WORD("H1", A_H1), WORD("H2", A_H2),
     WORD("H3", A_H3), WORD("H4", A_H4), WORD("H5", A_H5),
     WORD("H6", A_H6), WORD("H7", A_H7), WORD("H8", A_H8),
     WORD("H9", A_H9), WORD("H10", A_H10), WORD("H11", A_H11) >>

A_AM == <<107, 106>>
AM == WORD("AM", A_AM)

A_PM == <<102, 101>>
PM == WORD("PM", A_PM)

SCHEDULE == [text |-> "S", led |-> 110]
DIGITS ==
  << [text |-> "D0", led |-> 111], [text |-> "D1", led |-> 112],
     [text |-> "D2", led |-> 113], [text |-> "D3", led |-> 114],
     [text |-> "D4", led |-> 115], [text |-> "D5", led |-> 116],
     [text |-> "D6", led |-> 117], [text |-> "D7", led |-> 118],
     [text |-> "D8", led |-> 119], [text |-> "D9", led |-> 120] >>

A_CHK == <<64, 68, 84, 92, 82, 72, 58, 52, 34>>
CHK == WORD("CHK", A_CHK)

\* ------------------------------------------------------------------------
\* Reads of the tables.  C does not check an index: a read past the end of
\* W_MINS, W_HOURS or DIGITS yields whatever the memory after the table
\* holds, here the value g the caller draws.
\* ------------------------------------------------------------------------
\* byte values an out-of-table read can hand over as pixel numbers
GarbageBytes == {2, 57, 115, 200}

RECURSIVE SeqsUpTo(_, _)
SeqsUpTo(S, n) ==
  IF n = 0 THEN {<<>>}
  ELSE LET shorter == SeqsUpTo(S, n - 1)
       IN shorter \cup {Append(s, x) : s \in {q \in shorter : Len(q) = n - 1}, x \in S}

GarbageWords == {[text |-> "?", leds |-> a] : a \in SeqsUpTo(GarbageBytes, MaxGarbageLen)}
GarbageDigits == {[text |-> "?", led |-> b] : b \in GarbageBytes}

NoGarbage == [word |-> WORD("?", <<>>), digit |-> [text |-> "?", led |-> 200]]
Garbage == [word : GarbageWords, digit : GarbageDigits]

InTable(table, i) == i \in 0 .. (Len(table) - 1)

WordAt(table, i, g) == IF InTable(table, i) THEN table[i + 1] ELSE g.word
DigitAt(table, i, g) == IF InTable(table, i) THEN table[i + 1] ELSE g.digit

\* ------------------------------------------------------------------------
\* State
\* ------------------------------------------------------------------------
VARIABLES
  \* ... RTC ...
  updateTime, isrAlarmWasCalled, isTimeUpdateRunning, isScheduleActive,
  isPowerOffInitialized, t,
  \* ... IR ...
  irResults, shouldEvaluateIRresults, irCtr, evaluatingIRresults,
  pauseAnimations, autoCycleHue, autoCycleBrightness,
  \* ... LED ...
  leds, blinkToConfirm, fps, ledMode, hue, oldBrightness, newBrightness,
  incBrightness,
  \* the collaborators: the clock chip's time, the IR decoder, the pixels
  \* last sent to the strip by FastLED.show() and the brightness it was
  \* given by FastLED.setBrightness(), and the power state of the board
  rtc, irrecv, strip, stripBrightness, power,
  \* whether the clock chip's alarm 2 interrupt is enabled (setAlarmSchedule)
  alarmOn,
  \* where loop() stands: "wake" (the alarm check), "ir" (handleIRresults)
  \* or "render" (the pause / schedule / handleLeds branch)
  pc,
  \* what the last run of handleDisplayTime computed: its table indices
  \* (dt) and the texts of the segments it handed to setColorForWord and
  \* setColorForDigit (shown)
  dt, shown,
  \* history: the hue at the start (h0), the hue-up and hue-down commands
  \* interpreted so far (ups, downs), the auto-cycle steps of hue and
  \* brightness the render passes have taken (hueSteps, brightSteps), the
  \* ticks since handleIRresults last handled a signal of unknown protocol
  \* (since; NoIdx when there is none or a command was interpreted after
  \* it), what the last evaluation of the schedule returned (lastEval:
  \* "none", "dark" or "awake"), the last command interpreted with the
  \* three toggles and the pause as they were before it (last), whether the
  \* last call of handleIRresults interpreted a command (fresh), and the
  \* signals captured in the runs that count them (keys)
  hist

rtcVars == <<updateTime, isrAlarmWasCalled, isTimeUpdateRunning, isScheduleActive,
             isPowerOffInitialized, t>>
irVars == <<irResults, shouldEvaluateIRresults, irCtr, evaluatingIRresults,
            pauseAnimations, autoCycleHue, autoCycleBrightness>>
ledVars == <<leds, blinkToConfirm, fps, ledMode, hue, oldBrightness, newBrightness,
             incBrightness>>
envVars == <<rtc, irrecv, strip, stripBrightness, power, alarmOn, pc>>
obsVars == <<dt, shown, hist>>
vars == <<rtcVars, irVars, ledVars, envVars, obsVars>>

Times == [Hour : 0 .. 23, Minute : 0 .. 59]

\* ------------------------------------------------------------------------
\* Time-to-words mapper (handleDisplayTime)
\* ------------------------------------------------------------------------
showMinutes(mins) == (mins < 56) \/ (mins = 0)

\* MinuteIdx with the mirrored index taken from MIN_PARTS - 1, the array
\* length less one, without the further -1 that skips 'half'
MinuteIdx_LengthLessOne(tm) ==
  IF tm.Minute > 30
    THEN (MIN_PARTS - 1) - ((tm.Minute - 31) \div MIN_STEP)
    ELSE tm.Minute \div MIN_STEP

\* int idx = (t.Minute > 30) ? floor((MIN_PARTS - 2) - ((t.Minute - 31) / MIN_STEP))
\*                           : floor(t.Minute / MIN_STEP);
MinuteIdx(tm) ==
  IF tm.Minute > 30
    THEN (MIN_PARTS - 2) - ((tm.Minute - 31) \div MIN_STEP)
    ELSE tm.Minute \div MIN_STEP

\* HourIdx with the +1 applied after the % 12
HourIdx_AddAfterMod(tm) ==
  IF tm.Minute > 30 THEN (tm.Hour % 12) + 1 ELSE tm.Hour % 12

\* W_HOURS[(int)ceil((t.Hour + 1) % 12)] : W_HOURS[(int)ceil(t.Hour % 12)]
HourIdx(tm) ==
  IF tm.Minute > 30 THEN (tm.Hour + 1) % 12 ELSE tm.Hour % 12

RelationWord(tm) == IF tm.Minute > 30 THEN TO ELSE PAST

\* DaytimeWord with noon counted as PM
DaytimeWord_NoonPM(tm) == IF tm.Hour >= 12 THEN PM ELSE AM

DaytimeWord(tm) == IF tm.Hour > 12 THEN PM ELSE AM

DigitM1(tm) == tm.Minute \div 10
\* DigitM2 without the * 10
DigitM2_NoTimesTen(tm) == tm.Minute - DigitM1(tm)

DigitM2(tm) == tm.Minute - (DigitM1(tm) * 10)

\* the table indices one run computes; NoIdx where the run computes none
NoIdx == 0 - 1
DisplayTimeIdx(tm) ==
  [ mins |-> IF showMinutes(tm.Minute) THEN MinuteIdx(tm) ELSE NoIdx,
    hour |-> HourIdx(tm),
    m1 |-> DigitM1(tm),
    m2 |-> DigitM2(tm) ]

\* the words handed to setColorForWord, in the order of the calls
DisplayTimeWords(tm, g) ==
  <<IT, IS>>
  \o (IF showMinutes(tm.Minute) THEN <<WordAt(W_MINS, MinuteIdx(tm), g)>> ELSE <<>>)
  \o (IF showMinutes(tm.Minute) THEN <<RelationWord(tm)>> ELSE <<>>)
  \o <<WordAt(W_HOURS, HourIdx(tm), g)>>
  \o <<DaytimeWord(tm)>>

\* the digits handed to setColorForDigit, in the order of the calls
DisplayTimeDigits(tm, g) ==
  IF DigitM1(tm) = DigitM2(tm)
    THEN <<DigitAt(DIGITS, DigitM1(tm), g)>>
    ELSE <<DigitAt(DIGITS, DigitM1(tm), g), DigitAt(DIGITS, DigitM2(tm), g)>>

\* the outcomes of the table reads of one run: a choice only where an index
\* leaves its table
GarbageFor(tm) ==
  IF /\ showMinutes(tm.Minute) => InTable(W_MINS, MinuteIdx(tm))
     /\ InTable(W_HOURS, HourIdx(tm))
     /\ InTable(DIGITS, DigitM1(tm))
     /\ InTable(DIGITS, DigitM2(tm))
    THEN {NoGarbage}
    ELSE Garbage

\* ------------------------------------------------------------------------
\* Pixel buffer
\* ------------------------------------------------------------------------
AllBlack == [p \in Pixels |-> Black]

\* the pixels a call of setColorForWord writes: the positions of the word
\* that pass the check ledNo < LED_PIXELS
WordPixels(w) == {n \in {w.leds[i] : i \in 1 .. Len(w.leds)} : n < LED_PIXELS}

\* int ledNo = digit.led: a uint16_t read into the 16-bit int of the board;
\* values from 2^15 on come out negative
IntOfU16(v) == IF v >= 2 ^ 15 THEN v - (2 ^ 16) ELSE v

\* DigitPixels with the check ledNo < LED_PIXELS - 1
DigitPixels_LastPixelDropped(d) == {n \in {IntOfU16(d.led)} : n < LED_PIXELS - 1}

\* the indices a call of setColorForDigit writes: the position as an int,
\* when it passes the check ledNo < LED_PIXELS
DigitPixels(d) == {n \in {IntOfU16(d.led)} : n < LED_PIXELS}

setColorForWord(buf, w, colour) ==
  LET hit == WordPixels(w)
  IN [p \in Pixels |-> IF p \in hit THEN colour ELSE buf[p]]

setColorForDigit(buf, d, colour) ==
  LET hit == DigitPixels(d)
  IN [p \in Pixels |-> IF p \in hit THEN colour ELSE buf[p]]

\* setColorForWord for each word of ws in turn, all with the same colour:
\* the pixels of all the words end with that colour
PaintWords(buf, ws, colour) ==
  LET hit == UNION {WordPixels(ws[k]) : k \in 1 .. Len(ws)}
  IN [p \in Pixels |-> IF p \in hit THEN colour ELSE buf[p]]

\* setColorForDigit for each digit of ds in turn
PaintDigits(buf, ds, colour) ==
  LET hit == UNION {DigitPixels(ds[k]) : k \in 1 .. Len(ds)}
  IN [p \in Pixels |-> IF p \in hit THEN colour ELSE buf[p]]

Texts(ws) == {ws[i].text : i \in 1 .. Len(ws)}

\* DisplayTimeLeds without fill_solid(leds, LED_PIXELS, CRGB::Black)
DisplayTimeLeds_NoClear(tm, h, g) ==
  PaintDigits(PaintWords(leds, DisplayTimeWords(tm, g), h),
              DisplayTimeDigits(tm, g), h)

\* the buffer one run of handleDisplayTime leaves
DisplayTimeLeds(tm, h, g) ==
  PaintDigits(PaintWords(AllBlack, DisplayTimeWords(tm, g), h),
              DisplayTimeDigits(tm, g), h)

\* DisplayTimeRuns without the return on isTimeUpdateRunning
DisplayTimeRuns_NoGuard == updateTime

\* DisplayTimeRuns without the return on !updateTime
DisplayTimeRuns_NoFlag == ~isTimeUpdateRunning

\* handleDisplayTime(): what it leaves in the variables it writes; both
\* early returns change nothing
DisplayTimeRuns == updateTime /\ ~isTimeUpdateRunning

AfterDisplayTime(g) ==
  IF DisplayTimeRuns
    THEN [ updateTime |-> FALSE,
           t |-> rtc,
           leds |-> DisplayTimeLeds(rtc, hue, g),
           dt |-> DisplayTimeIdx(rtc),
           shown |-> Texts(DisplayTimeWords(rtc, g)) \cup Texts(DisplayTimeDigits(rtc, g)) ]
    ELSE [ updateTime |-> updateTime, t |-> t, leds |-> leds, dt |-> dt, shown |-> shown ]

DisplayTimeDraws == IF DisplayTimeRuns THEN GarbageFor(rtc) ELSE {NoGarbage}

HandleDisplayTime ==
  \E g \in DisplayTimeDraws :
    LET r == AfterDisplayTime(g)
    IN /\ updateTime' = r.updateTime
       /\ isTimeUpdateRunning' = (isTimeUpdateRunning /\ ~DisplayTimeRuns)
       /\ t' = r.t
       /\ leds' = r.leds
       /\ dt' = r.dt
       /\ shown' = r.shown
       /\ hist' = [hist EXCEPT !.repaints = @ + (IF DisplayTimeRuns THEN 1 ELSE 0)]
       /\ UNCHANGED <<isrAlarmWasCalled, isScheduleActive, isPowerOffInitialized>>
       /\ UNCHANGED <<irVars, envVars>>
       /\ UNCHANGED <<blinkToConfirm, fps, ledMode, hue, oldBrightness,
                      newBrightness, incBrightness>>

\* ------------------------------------------------------------------------
\* Timer tick
\* ------------------------------------------------------------------------
\* irrecv.decode(&irResults): true, with the signal copied to irResults,
\* when the decoder holds a captured signal
\* A 32-bit value is kept as its two 16-bit halves, [hi, lo].
Zero32 == [hi |-> 0, lo |-> 0]
DecoderIdle == [held |-> FALSE, decode_type |-> "UNUSED", value |-> Zero32]

\* TimerISR that also ends a running pause
TimerISR_EndsPause ==
  /\ power = "run"
  /\ updateTime' = TRUE
  /\ shouldEvaluateIRresults' = irrecv.held
  /\ irResults' = IF irrecv.held
                    THEN [decode_type |-> irrecv.decode_type, value |-> irrecv.value]
                    ELSE irResults
  /\ irCtr' = (irCtr + 1) % Byte
  /\ pauseAnimations' = FALSE
  /\ UNCHANGED <<isrAlarmWasCalled, isTimeUpdateRunning, isScheduleActive,
                 isPowerOffInitialized, t>>
  /\ UNCHANGED <<evaluatingIRresults, autoCycleHue, autoCycleBrightness>>
  /\ hist' = [hist EXCEPT !.since = IF @ = NoIdx THEN @ ELSE @ + 1, !.repaints = 0]
  /\ UNCHANGED <<ledVars, envVars, dt, shown>>

\* TimerISR without updateTime = true
TimerISR_NoUpdate ==
  /\ power = "run"
  /\ updateTime' = updateTime
  /\ shouldEvaluateIRresults' = irrecv.held
  /\ irResults' = IF irrecv.held
                    THEN [decode_type |-> irrecv.decode_type, value |-> irrecv.value]
                    ELSE irResults
  /\ irCtr' = (irCtr + 1) % Byte
  /\ UNCHANGED <<isrAlarmWasCalled, isTimeUpdateRunning, isScheduleActive,
                 isPowerOffInitialized, t>>
  /\ UNCHANGED <<evaluatingIRresults, pauseAnimations, autoCycleHue, autoCycleBrightness>>
  /\ hist' = [hist EXCEPT !.since = IF @ = NoIdx THEN @ ELSE @ + 1, !.repaints = 0]
  /\ UNCHANGED <<ledVars, envVars, dt, shown>>

\* ISR(TIMER1_COMPA_vect)
TimerISR ==
  /\ power = "run"
  /\ updateTime' = TRUE
  /\ shouldEvaluateIRresults' = irrecv.held
  /\ irResults' = IF irrecv.held
                    THEN [decode_type |-> irrecv.decode_type, value |-> irrecv.value]
                    ELSE irResults
  /\ irCtr' = (irCtr + 1) % Byte
  /\ UNCHANGED <<isrAlarmWasCalled, isTimeUpdateRunning, isScheduleActive,
                 isPowerOffInitialized, t>>
  /\ UNCHANGED <<evaluatingIRresults, pauseAnimations, autoCycleHue, autoCycleBrightness>>
  /\ hist' = [hist EXCEPT !.since = IF @ = NoIdx THEN @ ELSE @ + 1, !.repaints = 0]
  /\ UNCHANGED <<ledVars, envVars, dt, shown>>

\* ------------------------------------------------------------------------
\* Settings (increaseBrightness, increaseHue) and the command interpreter
\* ------------------------------------------------------------------------
\* increaseBrightness without the two clamps: the uint8_t sum wraps
increaseBrightness_NoClamp(b, stepSize) == (b + stepSize) % Byte

\* increaseHue with the hue clamped to 0..255 instead of wrapping
increaseHue_Clamped(h, stepSize) ==
  IF h + stepSize > Byte - 1 THEN Byte - 1
  ELSE IF h + stepSize < 0 THEN 0
  ELSE h + stepSize

\* newBrightness + stepSize is computed in int; the sum is stored into a
\* uint8_t
increaseBrightness(b, stepSize) ==
  IF b + stepSize > MaxBrightness THEN MaxBrightness
  ELSE IF b + stepSize < 0 THEN 0
  ELSE (b + stepSize) % Byte

\* hue += stepSize on a uint8_t
increaseHue(h, stepSize) == (h + stepSize) % Byte

\* the settings a command can change
settingVars == <<ledMode, fps, newBrightness, hue, isScheduleActive,
                 autoCycleHue, autoCycleBrightness, blinkToConfirm>>

\* setLEDModeState that also starts the mode from hue 0
setLEDModeState_ResetsHue(mode, _fps) ==
  /\ ledMode' = mode
  /\ fps' = _fps
  /\ hue' = 0
  /\ UNCHANGED <<newBrightness, isScheduleActive, autoCycleHue,
                 autoCycleBrightness, blinkToConfirm>>

\* the switch with a default label that falls back to the clock face
UnknownCode_ResetsMode ==
  /\ ledMode' = LED_MODE_NORMAL
  /\ fps' = 25
  /\ UNCHANGED <<newBrightness, hue, isScheduleActive, autoCycleHue,
                 autoCycleBrightness, blinkToConfirm>>

\* the switch has no default label: a value no case matches does nothing
UnknownCode == UNCHANGED settingVars

setLEDModeState(mode, _fps) ==
  /\ ledMode' = mode
  /\ fps' = _fps
  /\ UNCHANGED <<newBrightness, hue, isScheduleActive, autoCycleHue,
                 autoCycleBrightness, blinkToConfirm>>

\* LowerHalf without the mask: the whole value is compared with the codes,
\* and matches none of them unless its upper half is 0
LowerHalf_NoMask(result) == IF result.hi = 0 THEN result.lo ELSE 0 - 1

\* result & 0xffff
LowerHalf(result) == result.lo

\* uint16_t valueToCheck = (result & 0xffff): the lower half of the value
evaluateIRResult(result) ==
  LET valueToCheck == LowerHalf(result)
  IN CASE valueToCheck = IR_ZERO -> setLEDModeState(LED_MODE_NORMAL, 25)
       [] valueToCheck = IR_ONE -> setLEDModeState(LED_MODE_RAINBOW, 60)
       [] valueToCheck = IR_TWO -> setLEDModeState(LED_MODE_RAINBOW_GLITTER, 60)
       [] valueToCheck = IR_THREE -> setLEDModeState(LED_MODE_CONFETTI, 60)
       [] valueToCheck = IR_FOUR -> setLEDModeState(LED_MODE_SINELON, 60)
       [] valueToCheck = IR_FIVE -> setLEDModeState(LED_MODE_BPM, 60)
       [] valueToCheck = IR_SIX -> setLEDModeState(LED_MODE_JUGGLE, 60)
       [] valueToCheck = IR_SEVEN -> setLEDModeState(LED_MODE_MATRIX, 25)
       [] valueToCheck = IR_VOL_UP ->
            /\ newBrightness' = increaseBrightness(newBrightness, LED_BRIGHTNESS_STEP)
            /\ UNCHANGED <<ledMode, fps, hue, isScheduleActive, autoCycleHue,
                           autoCycleBrightness, blinkToConfirm>>
       [] valueToCheck = IR_VOL_DOWN ->
            /\ newBrightness' = increaseBrightness(newBrightness, LED_BRIGHTNESS_STEP * (0 - 1))
            /\ UNCHANGED <<ledMode, fps, hue, isScheduleActive, autoCycleHue,
                           autoCycleBrightness, blinkToConfirm>>
       [] valueToCheck = IR_UP ->
            /\ hue' = increaseHue(hue, LED_HUE_STEP)
            /\ UNCHANGED <<ledMode, fps, newBrightness, isScheduleActive, autoCycleHue,
                           autoCycleBrightness, blinkToConfirm>>
       [] valueToCheck = IR_DOWN ->
            /\ hue' = increaseHue(hue, LED_HUE_STEP * (0 - 1))
            /\ UNCHANGED <<ledMode, fps, newBrightness, isScheduleActive, autoCycleHue,
                           autoCycleBrightness, blinkToConfirm>>
       [] valueToCheck = IR_POWER ->
            /\ isScheduleActive' = ~isScheduleActive
            /\ blinkToConfirm' = TRUE
            /\ UNCHANGED <<ledMode, fps, newBrightness, hue, autoCycleHue,
                           autoCycleBrightness>>
       [] valueToCheck = IR_AUTO_HUE ->
            /\ autoCycleHue' = ~autoCycleHue
            /\ blinkToConfirm' = TRUE
            /\ UNCHANGED <<ledMode, fps, newBrightness, hue, isScheduleActive,
                           autoCycleBrightness>>
       [] valueToCheck = IR_AUTO_BRIGHTNESS ->
            /\ autoCycleBrightness' = ~autoCycleBrightness
            /\ blinkToConfirm' = TRUE
            /\ UNCHANGED <<ledMode, fps, newBrightness, hue, isScheduleActive,
                           autoCycleHue>>
       [] OTHER -> UnknownCode

\* CommandEndsPause that lets a running pause go on
CommandEndsPause_KeepsPause == pauseAnimations' = pauseAnimations

\* pauseAnimations = false, on a result of the expected protocol
CommandEndsPause == pauseAnimations' = FALSE

\* the pending value is the key of the clock face and an animation is running
LeavesAnimation == ledMode # LED_MODE_NORMAL /\ irResults.value.lo = IR_ZERO

\* handleIRresults(), the second statement of loop()
HandleIRresults ==
  /\ power = "run"
  /\ pc = "ir"
  /\ pc' = "render"
  /\ IF ~shouldEvaluateIRresults \/ evaluatingIRresults
       THEN /\ UNCHANGED <<irVars, settingVars, irrecv>>
            /\ hist' = [hist EXCEPT !.fresh = FALSE]
     ELSE IF irResults.decode_type = "UNKNOWN"
       THEN \* the work-around: pause the animations, re-arm, return
            /\ irCtr' = 0
            /\ pauseAnimations' = TRUE
            /\ irrecv' = DecoderIdle
            /\ UNCHANGED <<irResults, shouldEvaluateIRresults, evaluatingIRresults>>
            /\ hist' = [hist EXCEPT !.since = 0, !.fresh = FALSE]
            /\ UNCHANGED settingVars
     ELSE IF irResults.decode_type # "NEC"
       THEN /\ UNCHANGED <<irVars, settingVars, irrecv>>
            /\ hist' = [hist EXCEPT !.fresh = FALSE]
     ELSE /\ CommandEndsPause
          /\ shouldEvaluateIRresults' = FALSE
          /\ evaluatingIRresults' = FALSE
          /\ evaluateIRResult(irResults.value)
          /\ irrecv' = DecoderIdle
          /\ hist' = [hist EXCEPT
                        !.ups = @ + (IF irResults.value.lo = IR_UP THEN 1 ELSE 0),
                        !.downs = @ + (IF irResults.value.lo = IR_DOWN THEN 1 ELSE 0),
                        !.since = NoIdx,
                        !.fresh = TRUE,
                        !.last = [lo |-> irResults.value.lo,
                                  schedule |-> isScheduleActive,
                                  autoHue |-> autoCycleHue,
                                  autoBrightness |-> autoCycleBrightness,
                                  paused |-> pauseAnimations,
                                  toNormal |-> LeavesAnimation]]
          /\ UNCHANGED <<irResults, irCtr>>
  /\ UNCHANGED <<updateTime, isrAlarmWasCalled, isTimeUpdateRunning,
                 isPowerOffInitialized, t>>
  /\ UNCHANGED <<leds, oldBrightness, incBrightness>>
  /\ UNCHANGED <<rtc, strip, stripBrightness, power, alarmOn>>
  /\ UNCHANGED <<dt, shown>>

\* the receiver captures a signal while the decoder is armed
IRSignal(sig) ==
  /\ ~irrecv.held
  /\ irrecv' = [held |-> TRUE, decode_type |-> sig.decode_type, value |-> sig.value]
  /\ UNCHANGED <<rtcVars, irVars, ledVars, obsVars>>
  /\ UNCHANGED <<rtc, strip, stripBrightness, power, alarmOn, pc>>

NEC(code) == [decode_type |-> "NEC", value |-> [hi |-> IR_PREFIX, lo |-> code]]

\* a signal the decoder could match to no protocol, and one of a protocol
\* other than NEC
UnknownSignal == [decode_type |-> "UNKNOWN", value |-> Zero32]
OtherSignal == [decode_type |-> "SONY", value |-> [hi |-> 0, lo |-> IR_ZERO]]

\* ------------------------------------------------------------------------
\* Animations.  Each takes the buffer and what the pass draws from the
\* random generator and the beat clock, and gives the buffer it leaves.
\* ------------------------------------------------------------------------
\* the pixels random16(LED_PIXELS) and beatsin16(.., 0, LED_PIXELS - 1) are
\* sampled at, and the columns random16(LED_COLUMNS) is sampled at
RandomPixels == {0, LED_PIXELS - 1}
RandomColumns == {0, LED_COLUMNS - 1}

fadeToBlackBy(buf) == [p \in Pixels |-> IF buf[p] = Black THEN Black ELSE Tint]

\* fill_rainbow(leds, LED_PIXELS, hue, 7)
rainbow(buf, h) == [p \in Pixels |-> (h + (7 * p)) % Byte]

\* glitter: the pixel that gets white added, or NoIdx for none
rainbowWithGlitter(buf, h, glitter) ==
  IF glitter = NoIdx THEN rainbow(buf, h)
  ELSE [rainbow(buf, h) EXCEPT ![glitter] = White]

confetti(buf, pos) == [fadeToBlackBy(buf) EXCEPT ![pos] = Tint]

sinelon(buf, pos) == [fadeToBlackBy(buf) EXCEPT ![pos] = Tint]

bpm(buf) == [p \in Pixels |-> Tint]

juggle(buf, dots) == [p \in Pixels |-> IF p \in dots THEN Tint ELSE fadeToBlackBy(buf)[p]]

\* the row copy of matrix(): leds[dst] = leds[src] for i = LED_ROWS-2 .. 1
\* and j = LED_COLUMNS-1 .. 1, in that order
MatrixDst(i, j) ==
  IF i % 2 = 0 THEN (((i + 1) * LED_COLUMNS) - 1) - (j % LED_COLUMNS)
  ELSE ((i + 1) * LED_COLUMNS) + (j % LED_COLUMNS)

MatrixSrc(i, j) ==
  IF i % 2 = 0 THEN (i * LED_COLUMNS) + j
  ELSE (i * LED_COLUMNS) - ((j % LED_COLUMNS) + 1)

\* the assignments are numbered 1 .. (LED_ROWS-2) * (LED_COLUMNS-1) in the
\* order the two loops make them; MatrixOrigin(p, k) is the pixel whose
\* value before the loops stands at p after the first k assignments
RECURSIVE MatrixOrigin(_, _)
MatrixOrigin(p, k) ==
  IF k = 0 THEN p
  ELSE LET i == (LED_ROWS - 2) - ((k - 1) \div (LED_COLUMNS - 1))
           j == (LED_COLUMNS - 1) - ((k - 1) % (LED_COLUMNS - 1))
       IN IF MatrixDst(i, j) = p
            THEN MatrixOrigin(MatrixSrc(i, j), k - 1)
            ELSE MatrixOrigin(p, k - 1)

\* the two loops as a whole: where each pixel's value comes from
MatrixSource == [p \in Pixels |-> MatrixOrigin(p, (LED_ROWS - 2) * (LED_COLUMNS - 1))]

MatrixCopy(buf) == [p \in Pixels |-> buf[MatrixSource[p]]]

matrix(buf, col) == [MatrixCopy(fadeToBlackBy(buf)) EXCEPT ![col] = Tint]

\* ------------------------------------------------------------------------
\* Render pass (handleLeds)
\* ------------------------------------------------------------------------
\* one auto-cycle step: newBrightness++ / newBrightness-- on a uint8_t, then
\* the turn at the ends
AutoBrightnessStep(b, inc) ==
  IF inc
    THEN LET n == (b + 1) % Byte
         IN IF n > AutoBrightnessHigh
              THEN [b |-> AutoBrightnessHigh, inc |-> FALSE]
              ELSE [b |-> n, inc |-> TRUE]
    ELSE LET n == (b - 1) % Byte
         IN IF n < AutoBrightnessLow
              THEN [b |-> AutoBrightnessLow, inc |-> TRUE]
              ELSE [b |-> n, inc |-> FALSE]

HueCycles ==
  \/ ledMode \in {LED_MODE_RAINBOW, LED_MODE_RAINBOW_GLITTER, LED_MODE_SINELON,
                  LED_MODE_JUGGLE}
  \/ autoCycleHue

\* what one pass draws: the outcome of an out-of-table read (g), the random
\* and beat positions (pos, glitter, dots, col) and the two reads of
\* millis() % 20 == 0 (stepB for the brightness step, stepH for the hue step)
NoDraw == [g |-> NoGarbage, pos |-> 0, glitter |-> NoIdx, dots |-> {}, col |-> 0]

ModeDraws ==
  CASE ledMode = LED_MODE_NORMAL -> {[NoDraw EXCEPT !.g = g] : g \in DisplayTimeDraws}
    [] ledMode = LED_MODE_RAINBOW_GLITTER ->
         {[NoDraw EXCEPT !.glitter = x] : x \in RandomPixels \cup {NoIdx}}
    [] ledMode \in {LED_MODE_CONFETTI, LED_MODE_SINELON} ->
         {[NoDraw EXCEPT !.pos = x] : x \in RandomPixels}
    [] ledMode = LED_MODE_JUGGLE ->
         {[NoDraw EXCEPT !.dots = x] :
            x \in {d \in SUBSET RandomPixels : Cardinality(d) \in 1 .. MaxDots}}
    [] ledMode = LED_MODE_MATRIX -> {[NoDraw EXCEPT !.col = x] : x \in RandomColumns}
    [] OTHER -> {NoDraw}

\* the switch on ledMode: the variables handleDisplayTime writes and the buffer
AfterMode(d) ==
  LET same == [updateTime |-> updateTime, t |-> t, leds |-> leds, dt |-> dt,
               shown |-> shown]
  IN CASE ledMode = LED_MODE_NORMAL -> AfterDisplayTime(d.g)
       [] ledMode = LED_MODE_RAINBOW -> [same EXCEPT !.leds = rainbow(leds, hue)]
       [] ledMode = LED_MODE_RAINBOW_GLITTER ->
            [same EXCEPT !.leds = rainbowWithGlitter(leds, hue, d.glitter)]
       [] ledMode = LED_MODE_CONFETTI -> [same EXCEPT !.leds = confetti(leds, d.pos)]
       [] ledMode = LED_MODE_SINELON -> [same EXCEPT !.leds = sinelon(leds, d.pos)]
       [] ledMode = LED_MODE_BPM -> [same EXCEPT !.leds = bpm(leds)]
       [] ledMode = LED_MODE_JUGGLE -> [same EXCEPT !.leds = juggle(leds, d.dots)]
       [] ledMode = LED_MODE_MATRIX -> [same EXCEPT !.leds = matrix(leds, d.col)]
       [] OTHER -> same

\* Overlay without the check mark
Overlay_NoCheckMark(buf) ==
  IF isScheduleActive THEN setColorForDigit(buf, SCHEDULE, hue) ELSE buf

\* the schedule indicator and the confirmation check mark
Overlay(buf) ==
  LET marked == IF isScheduleActive THEN setColorForDigit(buf, SCHEDULE, hue) ELSE buf
  IN IF blinkToConfirm THEN setColorForWord(marked, CHK, White) ELSE marked

BrightnessAfterPass(stepB) ==
  IF autoCycleBrightness /\ stepB
    THEN AutoBrightnessStep(newBrightness, incBrightness)
    ELSE [b |-> newBrightness, inc |-> incBrightness]

HueAfterPass(stepH) == IF HueCycles /\ stepH THEN (hue + 1) % Byte ELSE hue

\* handleLeds() with the draws d, stepB, stepH; tNow is t as loop() left it
HandleLeds(d, stepB, stepH, tNow) ==
  \E m \in {AfterMode(d)} : \E buf \in {Overlay(m.leds)} :
  LET br == BrightnessAfterPass(stepB)
  IN /\ updateTime' = m.updateTime
     /\ isTimeUpdateRunning' =
          (isTimeUpdateRunning /\ ~(ledMode = LED_MODE_NORMAL /\ DisplayTimeRuns))
     /\ t' = IF ledMode = LED_MODE_NORMAL /\ DisplayTimeRuns THEN m.t ELSE tNow
     /\ dt' = m.dt
     /\ shown' = m.shown
     /\ leds' = buf
     /\ blinkToConfirm' = FALSE
     /\ newBrightness' = br.b
     /\ incBrightness' = br.inc
     /\ oldBrightness' = br.b
     /\ stripBrightness' = IF br.b # oldBrightness THEN br.b ELSE stripBrightness
     /\ strip' = buf
     /\ hue' = HueAfterPass(stepH)
     /\ UNCHANGED <<fps, ledMode>>

StepDraws(on) == IF on THEN BOOLEAN ELSE {FALSE}

\* ------------------------------------------------------------------------
\* loop()
\* ------------------------------------------------------------------------
\* LoopWake without isrAlarmWasCalled = false
LoopWake_KeepsFlag ==
  /\ power = "run"
  /\ pc = "wake"
  /\ pc' = "ir"
  /\ UNCHANGED <<updateTime, isrAlarmWasCalled, isTimeUpdateRunning, isScheduleActive,
                 isPowerOffInitialized, t>>
  /\ UNCHANGED <<irVars, ledVars, obsVars>>
  /\ UNCHANGED <<rtc, irrecv, strip, stripBrightness, power, alarmOn>>

\* LoopWake that falls back to the clock face after a wake-up
LoopWake_ResetsMode ==
  /\ power = "run"
  /\ pc = "wake"
  /\ pc' = "ir"
  /\ isrAlarmWasCalled' = FALSE
  /\ ledMode' = IF isrAlarmWasCalled THEN LED_MODE_NORMAL ELSE ledMode
  /\ UNCHANGED <<updateTime, isTimeUpdateRunning, isScheduleActive,
                 isPowerOffInitialized, t>>
  /\ UNCHANGED <<irVars, obsVars>>
  /\ UNCHANGED <<leds, blinkToConfirm, fps, hue, oldBrightness, newBrightness,
                 incBrightness>>
  /\ UNCHANGED <<rtc, irrecv, strip, stripBrightness, power, alarmOn>>

\* if (isrAlarmWasCalled) { RTC.alarm(ALARM_2); isrAlarmWasCalled = false; }
LoopWake ==
  /\ power = "run"
  /\ pc = "wake"
  /\ pc' = "ir"
  /\ isrAlarmWasCalled' = FALSE
  /\ UNCHANGED <<updateTime, isTimeUpdateRunning, isScheduleActive,
                 isPowerOffInitialized, t>>
  /\ UNCHANGED <<irVars, ledVars, obsVars>>
  /\ UNCHANGED <<rtc, irrecv, strip, stripBrightness, power, alarmOn>>

\* shouldGoToSleep with the end of the window compared by > instead of >=
shouldGoToSleep_LateEnd ==
  isScheduleActive /\ ((RTC_ALIVE_FROM > rtc.Hour) \/ (rtc.Hour > RTC_ALIVE_TO))

\* shouldGoToSleep without the early return for an inactive schedule
shouldGoToSleep_IgnoresFlag ==
  (RTC_ALIVE_FROM > rtc.Hour) \/ (rtc.Hour >= RTC_ALIVE_TO)

\* shouldGoToSleep(), evaluated on the time it reads from the clock
shouldGoToSleep ==
  isScheduleActive /\ ((RTC_ALIVE_FROM > rtc.Hour) \/ (rtc.Hour >= RTC_ALIVE_TO))

\* PauseOver one tick early
PauseOver_OneEarly == irCtr >= IR_PAUSE - 1

\* else if (irCtr >= IR_PAUSE): the pause has lasted long enough
PauseOver == irCtr >= IR_PAUSE

\* BlankNeeded without the isPowerOffInitialized guard
BlankNeeded_Always == TRUE

\* if (!isPowerOffInitialized): the display is blanked and the board put to
\* sleep only when that has not been done yet
BlankNeeded == ~isPowerOffInitialized

\* setAlarmSchedule that switches the alarm interrupt off
setAlarmSchedule_InterruptOff == alarmOn' = FALSE

\* setAlarmSchedule without RTC.alarmInterrupt(ALARM_2, true)
setAlarmSchedule_NoInterrupt == alarmOn' = alarmOn

\* setAlarmSchedule(): alarm 2 is set to the wake-up time and its interrupt
\* enabled
setAlarmSchedule == alarmOn' = TRUE

\* enterLowPower(): energy.PowerDown()
enterLowPower == power' = "down"

setAlarmScheduleAndEnterLowPower == setAlarmSchedule /\ enterLowPower

\* isrAlarm(), attached to the falling edge of the clock chip's interrupt
\* line, which the chip drives once its alarm 2 interrupt is enabled; the
\* edge wakes the board from energy.PowerDown(), and loop() goes on behind
\* the call
isrAlarm ==
  /\ alarmOn
  /\ isrAlarmWasCalled' = TRUE
  /\ power' = "run"
  /\ UNCHANGED <<updateTime, isTimeUpdateRunning, isScheduleActive,
                 isPowerOffInitialized, t>>
  /\ UNCHANGED <<irVars, ledVars, obsVars>>
  /\ UNCHANGED <<rtc, irrecv, strip, stripBrightness, alarmOn, pc>>

\* LoopWhilePaused that blanks the display
LoopWhilePaused_Blanks ==
  /\ pauseAnimations' = IF PauseOver THEN FALSE ELSE pauseAnimations
  /\ UNCHANGED <<updateTime, isTimeUpdateRunning, isPowerOffInitialized, t>>
  /\ leds' = AllBlack
  /\ strip' = AllBlack
  /\ UNCHANGED <<blinkToConfirm, fps, ledMode, hue, oldBrightness, newBrightness,
                 incBrightness, obsVars>>
  /\ UNCHANGED <<stripBrightness, power, alarmOn>>

\* the else-branch of loop(): the animations are paused; the pause ends
\* once irCtr has reached IR_PAUSE
LoopWhilePaused ==
  /\ pauseAnimations' = IF PauseOver THEN FALSE ELSE pauseAnimations
  /\ UNCHANGED <<updateTime, isTimeUpdateRunning, isPowerOffInitialized, t>>
  /\ UNCHANGED <<ledVars, obsVars>>
  /\ UNCHANGED <<strip, stripBrightness, power, alarmOn>>

\* the rest of loop(): blank and power down, render, or end the pause
LoopRender ==
  /\ power = "run"
  /\ pc = "render"
  /\ pc' = "wake"
  /\ IF ~pauseAnimations
       THEN IF shouldGoToSleep
              THEN IF BlankNeeded
                     THEN /\ leds' = AllBlack
                          /\ isPowerOffInitialized' = TRUE
                          /\ strip' = AllBlack
                          /\ setAlarmScheduleAndEnterLowPower
                          /\ t' = rtc
                          /\ UNCHANGED <<updateTime, isTimeUpdateRunning, pauseAnimations,
                                         blinkToConfirm, fps, ledMode, hue, oldBrightness,
                                         newBrightness, incBrightness, stripBrightness>>
                          /\ hist' = [hist EXCEPT !.lastEval = "dark"]
                          /\ UNCHANGED <<dt, shown>>
                     ELSE /\ t' = rtc
                          /\ UNCHANGED <<updateTime, isTimeUpdateRunning,
                                         isPowerOffInitialized, pauseAnimations>>
                          /\ hist' = [hist EXCEPT !.lastEval = "dark"]
                          /\ UNCHANGED <<ledVars, dt, shown>>
                          /\ UNCHANGED <<strip, stripBrightness, power, alarmOn>>
              ELSE /\ isPowerOffInitialized' = FALSE
                   /\ \E d \in ModeDraws,
                         stepB \in StepDraws(autoCycleBrightness
                                               /\ hist.brightSteps < MaxAutoSteps),
                         stepH \in StepDraws(HueCycles /\ hist.hueSteps < MaxHueSteps) :
                        /\ HandleLeds(d, stepB, stepH, IF isScheduleActive THEN rtc ELSE t)
                        /\ hist' = [hist EXCEPT
                                      !.brightSteps = @ + (IF stepB THEN 1 ELSE 0),
                                      !.hueSteps = @ + (IF stepH THEN 1 ELSE 0),
                                      !.repaints = @ + (IF ledMode = LED_MODE_NORMAL
                                                           /\ DisplayTimeRuns THEN 1 ELSE 0),
                                      !.lastEval = "awake"]
                   /\ UNCHANGED <<pauseAnimations, power, alarmOn>>
       ELSE LoopWhilePaused
  /\ UNCHANGED <<isrAlarmWasCalled, isScheduleActive>>
  /\ UNCHANGED <<irResults, shouldEvaluateIRresults, irCtr, evaluatingIRresults,
                 autoCycleHue, autoCycleBrightness>>
  /\ UNCHANGED <<rtc, irrecv>>

\* ------------------------------------------------------------------------
\* Initial state: the initialisers of the globals, after setup()
\* ------------------------------------------------------------------------
\* InitState(b, h, ctr, busyTime, busyIR): the same with the brightness at b
\* and the hue at h, for the runs that start where earlier commands have left
\* the two settings, with the tick counter at ctr, where earlier ticks have
\* left it, and with the two guard flags as a call finds them (TRUE inside
\* handleDisplayTime and inside the interpreting part of handleIRresults)
InitState(b, h, ctr, busyTime, busyIR) ==
  /\ updateTime = FALSE
  /\ isrAlarmWasCalled = FALSE
  /\ isTimeUpdateRunning = busyTime
  /\ isScheduleActive = FALSE
  /\ isPowerOffInitialized = FALSE
  /\ t = [Hour |-> 0, Minute |-> 0]
  /\ irResults = [decode_type |-> "UNUSED", value |-> Zero32]
  /\ shouldEvaluateIRresults = FALSE
  /\ irCtr = ctr
  /\ evaluatingIRresults = busyIR
  /\ pauseAnimations = FALSE
  /\ autoCycleHue = FALSE
  /\ autoCycleBrightness = FALSE
  /\ leds = AllBlack
  /\ blinkToConfirm = FALSE
  /\ fps = 60
  /\ ledMode = LED_MODE_NORMAL
  /\ hue = h
  /\ oldBrightness = b
  /\ newBrightness = b
  /\ incBrightness = TRUE
  /\ irrecv = DecoderIdle
  /\ strip = AllBlack
  /\ stripBrightness = b
  /\ power = "run"
  /\ alarmOn = FALSE
  /\ pc = "wake"
  /\ dt = [mins |-> NoIdx, hour |-> NoIdx, m1 |-> NoIdx, m2 |-> NoIdx]
  /\ shown = {}
  /\ hist = [h0 |-> h, ups |-> 0, downs |-> 0, hueSteps |-> 0, brightSteps |-> 0,
             since |-> NoIdx, lastEval |-> "none", keys |-> 0, fresh |-> FALSE, probe |-> NoIdx, wrote |-> {}, repaints |-> 0, applied |-> 0,
             last |-> [lo |-> 0, schedule |-> FALSE, autoHue |-> FALSE,
                       autoBrightness |-> FALSE, paused |-> FALSE, toNormal |-> FALSE]]

InitGlobals(b, h) == InitState(b, h, 0, FALSE, FALSE)

InitProgram == InitGlobals(20, 0)

\* ------------------------------------------------------------------------
\* The mapper over every time of day: the clock shows any time, the tick
\* asks for a repaint, handleDisplayTime repaints.
\* ------------------------------------------------------------------------
InitTime == InitProgram /\ rtc \in Times

TickTime == irCtr < MaxTicks /\ TimerISR

NextTime == TickTime \/ HandleDisplayTime

SpecTime == InitTime /\ [][NextTime]_vars

\* ------------------------------------------------------------------------
\* Claims about the mapper, checked under SpecTime.  Painted: a run of
\* handleDisplayTime has repainted the buffer for the time t.
\* ------------------------------------------------------------------------
Painted == dt.hour # NoIdx

Lit == {p \in Pixels : leds[p] # Black}

PositionsOf(a) == {a[i] : i \in 1 .. Len(a)}

MinuteTexts == {"M5", "M10", "M15", "M20", "M25", "M30"}
RelationTexts == {"TO", "PAST"}
HourTexts == {"H12", "H1", "H2", "H3", "H4", "H5", "H6", "H7", "H8", "H9", "H10", "H11"}
DaytimeTexts == {"AM", "PM"}
DigitTexts == {"D0", "D1", "D2", "D3", "D4", "D5", "D6", "D7", "D8", "D9"}

\* C1: for every hour and minute, every table index handleDisplayTime
\* computes is inside its table: the W_MINS index in 0..5 whenever a
\* five-minute word is drawn, the W_HOURS index in 0..11, both DIGITS
\* indices in 0..9.
C1_IndicesInsideTables ==
  Painted =>
    /\ (dt.mins # NoIdx => dt.mins \in 0 .. 5)
    /\ dt.hour \in 0 .. 11
    /\ dt.m1 \in 0 .. 9
    /\ dt.m2 \in 0 .. 9

\* C2: for every hour and minute in {5,10,15,20,25,30} the run lights PAST,
\* the five-minute word of that minute (5 -> M5, 10 -> M10, 15 -> M15,
\* 20 -> M20, 25 -> M25, 30 -> M30) and the hour word of the current hour;
\* 14:10 lights exactly IT, IS, TEN, PAST, TWO, PM and the digits 1 and 0.
C2_PastWithWordOfMinute ==
  LET word == [m \in {5, 10, 15, 20, 25, 30} |->
                 CASE m = 5 -> "M5" [] m = 10 -> "M10" [] m = 15 -> "M15"
                   [] m = 20 -> "M20" [] m = 25 -> "M25" [] m = 30 -> "M30"]
  IN /\ (Painted /\ t.Minute \in {5, 10, 15, 20, 25, 30}) =>
          /\ shown \cap RelationTexts = {"PAST"}
          /\ shown \cap MinuteTexts = {word[t.Minute]}
          /\ W_HOURS[(t.Hour % 12) + 1].text \in shown
     /\ (Painted /\ t = [Hour |-> 14, Minute |-> 10]) =>
          shown = {"IT", "IS", "M10", "PAST", "H2", "PM", "D1", "D0"}

\* C3: for every hour and minute in {35,40,45,50,55} the run lights TO, the
\* mirrored five-minute word (35 -> M25, 40 -> M20, 45 -> M15, 50 -> M10,
\* 55 -> M5) and the hour word of the next hour; 14:50 lights exactly IT,
\* IS, TEN, TO, THREE, PM and the digits 5 and 0.
C3_ToWithMirroredWord ==
  LET word == [m \in {35, 40, 45, 50, 55} |->
                 CASE m = 35 -> "M25" [] m = 40 -> "M20" [] m = 45 -> "M15"
                   [] m = 50 -> "M10" [] m = 55 -> "M5"]
      next == <<"H1", "H2", "H3", "H4", "H5", "H6", "H7", "H8", "H9", "H10", "H11", "H12">>
  IN /\ (Painted /\ t.Minute \in {35, 40, 45, 50, 55}) =>
          /\ shown \cap RelationTexts = {"TO"}
          /\ shown \cap MinuteTexts = {word[t.Minute]}
          /\ shown \cap HourTexts = {next[(t.Hour % 12) + 1]}
          /\ PositionsOf(A_TO) \subseteq Lit
     /\ (Painted /\ t = [Hour |-> 14, Minute |-> 50]) =>
          /\ shown = {"IT", "IS", "M10", "TO", "H3", "PM", "D5", "D0"}
          /\ Lit = PositionsOf(A_IT) \cup PositionsOf(A_IS) \cup PositionsOf(A_M10)
                     \cup PositionsOf(A_TO) \cup PositionsOf(A_H3)
                     \cup PositionsOf(A_PM) \cup {116, 111}

C3_Witness ==
  /\ Painted
  /\ t = [Hour |-> 14, Minute |-> 50]
  /\ "TO" \in shown
  /\ "M10" \in shown

\* C4: for minute 0 and every minute in 56..59 (any hour) the run lights no
\* five-minute word and neither PAST nor TO; 00:00 lights only IT, IS,
\* TWELVE, AM and the digit 0.
C4_NoMinuteWordAtZeroAndLate ==
  /\ (Painted /\ (t.Minute = 0 \/ t.Minute \in 56 .. 59)) =>
        /\ shown \cap MinuteTexts = {}
        /\ shown \cap RelationTexts = {}
        /\ dt.mins = NoIdx
  /\ (Painted /\ t = [Hour |-> 0, Minute |-> 0]) =>
        shown = {"IT", "IS", "H12", "AM", "D0"}

\* (The pixels of the other hour words stay dark whenever the W_MINS read
\* of the same run was inside its table.)
\* C5: for every hour the run lights exactly one hour word: the word at
\* index hour mod 12 when minute <= 30 and at index (hour+1) mod 12 when
\* minute > 30, index 0 being TWELVE; hours 0 and 12 light TWELVE when
\* minute <= 30, and hours h and h+12 light the same hour word.
C5_OneHourWord ==
  LET name == <<"H12", "H1", "H2", "H3", "H4", "H5", "H6", "H7", "H8", "H9", "H10", "H11">>
      at == IF t.Minute <= 30 THEN t.Hour % 12 ELSE (t.Hour + 1) % 12
      twin == [t EXCEPT !.Hour = (t.Hour + 12) % 24]
      hourPixels == UNION {PositionsOf(W_HOURS[i].leds) : i \in 1 .. 12}
  IN Painted =>
       /\ shown \cap HourTexts = {name[at + 1]}
       /\ (dt.mins \in {NoIdx} \cup (0 .. 5)) =>
            Lit \cap hourPixels = PositionsOf(W_HOURS[at + 1].leds)
       /\ dt.hour = at
       /\ PositionsOf(W_HOURS[at + 1].leds) \subseteq Lit
       /\ (t.Hour \in {0, 12} /\ t.Minute <= 30) => "H12" \in shown
       /\ name[HourIdx(twin) + 1] \in shown

C5_Witness ==
  /\ Painted
  /\ t = [Hour |-> 23, Minute |-> 31]
  /\ shown \cap HourTexts = {"H12"}

\* (The pixels of the other daytime word stay dark whenever the W_MINS read
\* of the same run was inside its table.)
\* C6: for every hour and minute the run lights exactly one daytime word:
\* AM when hour <= 12 (0 and 12 included), PM when hour > 12.
C6_OneDaytimeWord ==
  Painted =>
    /\ shown \cap DaytimeTexts = {IF t.Hour <= 12 THEN "AM" ELSE "PM"}
    /\ (t.Hour <= 12) => (PositionsOf(A_AM) \subseteq Lit)
    /\ (t.Hour > 12) => (PositionsOf(A_PM) \subseteq Lit)
    /\ (dt.mins \in {NoIdx} \cup (0 .. 5)) =>
         Lit \cap (PositionsOf(A_AM) \cup PositionsOf(A_PM)) =
           PositionsOf(IF t.Hour <= 12 THEN A_AM ELSE A_PM)

C6_Witness ==
  /\ Painted
  /\ t.Hour = 12
  /\ "AM" \in shown
  /\ "PM" \notin shown

\* (The other digit pixels stay dark whenever the W_MINS read of the same
\* run was inside its table.)
\* C7: for every minute the run lights the digit segment of the tens digit
\* (minute div 10) and that of the ones digit (minute mod 10) and no other
\* digit segment; with equal digits exactly one digit segment is lit
\* (34 lights digits 3 and 4, 33 lights digit 3 only).
C7_MinuteDigits ==
  LET name == <<"D0", "D1", "D2", "D3", "D4", "D5", "D6", "D7", "D8", "D9">>
      tens == t.Minute \div 10
      ones == t.Minute % 10
  IN Painted =>
       /\ shown \cap DigitTexts = {name[tens + 1], name[ones + 1]}
       /\ {111 + tens, 111 + ones} \subseteq Lit
       /\ (dt.mins \in {NoIdx} \cup (0 .. 5)) =>
            Lit \cap (111 .. 120) = {111 + tens, 111 + ones}
       /\ (tens = ones) => Cardinality(shown \cap DigitTexts) = 1
       /\ (t.Minute = 34) => shown \cap DigitTexts = {"D3", "D4"}
       /\ (t.Minute = 33) => shown \cap DigitTexts = {"D3"}

C7_Witness ==
  /\ Painted
  /\ t.Minute = 33
  /\ shown \cap DigitTexts = {"D3"}

\* ------------------------------------------------------------------------
\* The brightness keys: the remote control sends volume up, volume down and
\* the auto-brightness toggle; the loop interprets them and renders.
\* ------------------------------------------------------------------------
BrightSignals == {NEC(IR_VOL_UP), NEC(IR_VOL_DOWN), NEC(IR_AUTO_BRIGHTNESS)}

InitBright == InitProgram /\ rtc = [Hour |-> 14, Minute |-> 10]

\* the user presses a key before every tick, and both happen between two
\* iterations of loop()
TickBright == pc = "wake" /\ irrecv.held /\ irCtr < BrightTicks /\ TimerISR

KeyBright == pc = "wake" /\ \E sig \in BrightSignals : IRSignal(sig)

NextBright == TickBright \/ KeyBright \/ LoopWake \/ HandleIRresults \/ LoopRender

SpecBright == InitBright /\ [][NextBright]_vars

\* C8: in every reachable state newBrightness is within [0, 200]: no
\* sequence of brightness commands, auto-cycle toggles and auto-cycle steps
\* of the render pass takes it above 200 or wraps it below 0.
C8_BrightnessWithinRange == newBrightness \in 0 .. MaxBrightness

\* ------------------------------------------------------------------------
\* The volume keys from any brightness 0..200.
\* ------------------------------------------------------------------------
VolumeSignals == {NEC(IR_VOL_UP), NEC(IR_VOL_DOWN)}

InitVolume == \E b \in 0 .. MaxBrightness : InitGlobals(b, 0) /\ rtc = [Hour |-> 14, Minute |-> 10]

TickVolume == pc = "wake" /\ irrecv.held /\ irCtr < VolumeTicks /\ TimerISR

KeyVolume == pc = "wake" /\ \E sig \in VolumeSignals : IRSignal(sig)

NextVolume == TickVolume \/ KeyVolume \/ LoopWake \/ HandleIRresults \/ LoopRender

SpecVolume == InitVolume /\ [][NextVolume]_vars

\* the pass of handleIRresults that interprets the pending NEC value lo
Interprets(lo) ==
  /\ pc = "ir"
  /\ pc' = "render"
  /\ shouldEvaluateIRresults
  /\ ~evaluatingIRresults
  /\ irResults.decode_type = "NEC"
  /\ irResults.value.lo = lo

HueSignals == {NEC(IR_UP), NEC(IR_DOWN), NEC(IR_AUTO_HUE)}

InitHue == \E h \in 0 .. (Byte - 1) : InitGlobals(20, h) /\ rtc = [Hour |-> 14, Minute |-> 10]

TickHue == pc = "wake" /\ irrecv.held /\ irCtr < HueTicks /\ TimerISR

KeyHue == pc = "wake" /\ \E sig \in HueSignals : IRSignal(sig)

NextHue == TickHue \/ KeyHue \/ LoopWake \/ HandleIRresults \/ LoopRender

SpecHue == InitHue /\ [][NextHue]_vars

\* C10: hue adjustment wraps and never clamps: a hue-up sets hue to
\* (hue + 10) mod 256 and a hue-down to (hue - 10) mod 256; after u hue-ups
\* and d hue-downs from h0 with no auto-cycle step the hue is
\* (h0 + 10*(u - d)) mod 256, so an up followed by a down restores the hue.
C10_HueWraps ==
  /\ [](hist.hueSteps = 0 =>
          hue = (hist.h0 + 256 + (10 * (hist.ups - hist.downs))) % 256)
  /\ [][ /\ Interprets(IR_UP) => hue' = (hue + 10) % 256
         /\ Interprets(IR_DOWN) => hue' = (hue + 256 - 10) % 256 ]_vars

\* a hue-up from 250 has wrapped to 4, and the hue-down after it has
\* restored 250
C10_Witness ==
  /\ hist.h0 = 250
  /\ hist.ups = 1
  /\ hist.downs = 1
  /\ hist.hueSteps = 0
  /\ irResults.value.lo = IR_DOWN
  /\ hue = 250

\* ------------------------------------------------------------------------
\* The schedule at every time of day: the POWER key toggles the schedule,
\* the loop evaluates it, blanks and powers down, and the alarm line wakes
\* the board.
\* ------------------------------------------------------------------------
ScheduleSignals == {NEC(IR_POWER)}

InitSchedule == InitProgram /\ rtc \in Times

TickSchedule == pc = "wake" /\ irrecv.held /\ irCtr < ScheduleTicks /\ TimerISR

KeySchedule == pc = "wake" /\ power = "run" /\ \E sig \in ScheduleSignals : IRSignal(sig)

NextSchedule ==
  TickSchedule \/ KeySchedule \/ LoopWake \/ HandleIRresults \/ LoopRender \/ isrAlarm

SpecSchedule == InitSchedule /\ [][NextSchedule]_vars

\* a is earlier in the day than b, compared on the hour and then the minute
Earlier(a, b) == a.Hour < b.Hour \/ (a.Hour = b.Hour /\ a.Minute < b.Minute)

\* the window [activeFrom, activeTo) the schedule is configured with: whole
\* hours
InWindow(tm) ==
  /\ ~Earlier(tm, [Hour |-> RTC_ALIVE_FROM, Minute |-> 0])
  /\ Earlier(tm, [Hour |-> RTC_ALIVE_TO, Minute |-> 0])

\* the pass of loop() that evaluates the schedule
EvaluatesSchedule == power = "run" /\ pc = "render" /\ pc' = "wake" /\ ~pauseAnimations

C12_AwakeWhileScheduleOff ==
  /\ [](power = "down" => isScheduleActive)
  /\ [][ (power = "run" /\ pc = "render" /\ pc' = "wake" /\ ~isScheduleActive) =>
           /\ power' = "run"
           /\ alarmOn' = alarmOn
           /\ ~pauseAnimations =>
                /\ hist'.lastEval = "awake"
                /\ ~isPowerOffInitialized'
                /\ strip' = leds' ]_vars

\* the schedule is off at three in the night and the loop has rendered
C12_Witness ==
  /\ ~isScheduleActive
  /\ rtc = [Hour |-> 3, Minute |-> 0]
  /\ hist.lastEval = "awake"
  /\ power = "run"
  /\ strip # AllBlack

\* ------------------------------------------------------------------------
\* Signals of every protocol: noise, another remote control, and a key of
\* the clock's own.  The timer ticks on its own and loop() keeps running.
\* ------------------------------------------------------------------------
PauseSignals == {UnknownSignal, OtherSignal, NEC(IR_VOL_UP)}

InitPause == InitProgram /\ rtc = [Hour |-> 14, Minute |-> 10]

TickPause == irCtr < PauseTicks /\ TimerISR

KeyPause == \E sig \in PauseSignals : IRSignal(sig)

NextPause == TickPause \/ KeyPause \/ LoopWake \/ HandleIRresults \/ LoopRender

\* the pass of loop() that finds the animations paused
LoopPaused == pauseAnimations /\ LoopRender

\* the timer keeps ticking and loop() keeps running: during a pause every
\* part of loop() is taken again and again
SpecPause ==
  /\ InitPause
  /\ [][NextPause]_vars
  /\ WF_vars(TickPause)
  /\ WF_vars(LoopWake)
  /\ WF_vars(HandleIRresults)
  /\ WF_vars(LoopPaused)

\* the pass of handleIRresults that finds a pending signal
HandlesPending ==
  /\ pc = "ir"
  /\ pc' = "render"
  /\ shouldEvaluateIRresults
  /\ ~evaluatingIRresults

\* C13: after handleIRresults handles a signal of unrecognized protocol and
\* no further signal arrives, rendering is suppressed for exactly IR_PAUSE = 3
\* timer ticks: the pause holds before the third tick after the signal was
\* handled, the first pass of loop() after that tick clears pauseAnimations,
\* and the pause ends (rendering resumes) with no further input.
C13_PauseThreeTicks ==
  /\ [](hist.since \in 0 .. (IR_PAUSE - 1) => pauseAnimations)
  /\ [][ (pc = "render" /\ pc' = "wake" /\ pauseAnimations) =>
           /\ UNCHANGED <<leds, strip, dt, shown>>
           /\ pauseAnimations' <=> (hist.since # NoIdx /\ hist.since < IR_PAUSE) ]_vars
  /\ [](pauseAnimations => <>(~pauseAnimations \/ irrecv.held))

\* three ticks after the unknown signal the pause is over and the display
\* has been repainted
C13_Witness ==
  /\ hist.since = IR_PAUSE
  /\ irResults.decode_type = "UNKNOWN"
  /\ ~pauseAnimations
  /\ ~updateTime
  /\ pc = "wake"

\* C14: every pass of handleIRresults that finds a pending signal re-arms
\* the decoder (irrecv.resume) before it returns, whatever protocol the
\* decoder reported (UNKNOWN, NEC or any other), so a later signal can
\* always be received.
C14_DecoderRearmed == [][HandlesPending => ~irrecv'.held]_vars

\* C15: after any pass of handleIRresults that handled a pending signal
\* (recognized or unrecognized protocol) shouldEvaluateIRresults is false
\* until a later tick sets it again, so the same pending signal is not
\* handled again by the next iteration of loop().
C15_PendingFlagCleared ==
  [][ (HandlesPending /\ irResults.decode_type \in {"NEC", "UNKNOWN"}) =>
        ~shouldEvaluateIRresults' ]_vars

\* ------------------------------------------------------------------------
\* Sleeping and waking at the edges of the window: the POWER key and noise
\* arrive between two iterations of loop(), the clock moves on, the loop
\* blanks and powers down, the alarm line wakes the board.
\* ------------------------------------------------------------------------
SleepSignals == {NEC(IR_POWER), UnknownSignal}

SleepTimes == {[Hour |-> 5, Minute |-> 59], [Hour |-> 6, Minute |-> 0],
               [Hour |-> 22, Minute |-> 59], [Hour |-> 23, Minute |-> 0]}

InitSleep == InitProgram /\ rtc \in SleepTimes

TickSleep == pc = "wake" /\ irCtr < SleepTicks /\ TimerISR

KeySleep == pc = "wake" /\ power = "run" /\ \E sig \in SleepSignals : IRSignal(sig)

\* the clock chip moves on to the next of the times
ClockSleep ==
  /\ pc = "wake"
  /\ rtc' = CASE rtc = [Hour |-> 5, Minute |-> 59] -> [Hour |-> 6, Minute |-> 0]
               [] rtc = [Hour |-> 6, Minute |-> 0] -> [Hour |-> 22, Minute |-> 59]
               [] rtc = [Hour |-> 22, Minute |-> 59] -> [Hour |-> 23, Minute |-> 0]
               [] OTHER -> [Hour |-> 5, Minute |-> 59]
  /\ UNCHANGED <<rtcVars, irVars, ledVars, obsVars>>
  /\ UNCHANGED <<irrecv, strip, stripBrightness, power, alarmOn, pc>>

NextSleep ==
  \/ TickSleep \/ KeySleep \/ ClockSleep
  \/ LoopWake \/ HandleIRresults \/ LoopRender \/ isrAlarm

SpecSleep == InitSleep /\ [][NextSleep]_vars

\* the evaluation of the schedule by this pass of loop() returns dark
EvaluatesDark == EvaluatesSchedule /\ hist'.lastEval = "dark"

\* C16: blanking is idempotent: within any maximal run of consecutive
\* schedule evaluations that all return dark, the loop fills the buffer
\* black, flushes it and triggers the low-power entry at most once (on the
\* first of them); isPowerOffInitialized is reset only by an iteration in
\* which the schedule evaluates to not dark.
C16_BlanksOncePerDarkRun ==
  /\ [][ (EvaluatesDark /\ hist.lastEval = "dark") =>
           UNCHANGED <<leds, strip, power, alarmOn, isPowerOffInitialized>> ]_vars
  /\ [][ (power = "run" /\ power' = "down") =>
           (EvaluatesDark /\ hist.lastEval # "dark") ]_vars
  /\ [][ (isPowerOffInitialized /\ ~isPowerOffInitialized') =>
           (EvaluatesSchedule /\ hist'.lastEval = "awake") ]_vars

\* the board has been woken while it is still dark outside the window, and
\* a full iteration of loop() has evaluated the schedule again
C16_Witness ==
  /\ isScheduleActive
  /\ isPowerOffInitialized
  /\ power = "run"
  /\ pc = "wake"
  /\ ~isrAlarmWasCalled
  /\ hist.lastEval = "dark"

\* C17: low power is entered only from the schedule evaluator's true
\* branch: whenever enterLowPower is invoked, in the same iteration of loop()
\* pauseAnimations was false, shouldGoToSleep returned true (schedule active
\* and time outside the window), and the all-black buffer was flushed and
\* the wake alarm was set before the call.
C17_LowPowerOnlyWhenDark ==
  /\ [](power = "down" =>
          /\ isScheduleActive
          /\ ~pauseAnimations
          /\ ~InWindow(t)
          /\ leds = AllBlack
          /\ strip = AllBlack
          /\ alarmOn)
  /\ [][ (power = "run" /\ power' = "down") =>
           /\ pc = "render"
           /\ ~pauseAnimations
           /\ isScheduleActive
           /\ ~InWindow(rtc)
           /\ strip' = AllBlack
           /\ alarmOn' ]_vars

\* with the schedule on, noise has paused the animations, the pause has
\* ended, and the board has powered down at 23:00
C17_Witness ==
  /\ power = "down"
  /\ t = [Hour |-> 23, Minute |-> 0]
  /\ hist.since >= IR_PAUSE
  /\ strip = AllBlack
  /\ alarmOn

\* ------------------------------------------------------------------------
\* Every key of the remote control, the repeat code the remote sends while
\* a key is held and a code of another NEC remote, in the afternoon; each
\* tick of the timer hands one captured signal to loop().
\* ------------------------------------------------------------------------
KnownCodes == {IR_ZERO, IR_ONE, IR_TWO, IR_THREE, IR_FOUR, IR_FIVE, IR_SIX, IR_SEVEN,
               IR_VOL_UP, IR_VOL_DOWN, IR_UP, IR_DOWN, IR_POWER, IR_AUTO_HUE,
               IR_AUTO_BRIGHTNESS}

\* the NEC repeat code 0xFFFFFFFF and a code next to IR_ZERO
RepeatSignal == [decode_type |-> "NEC", value |-> [hi |-> 65535, lo |-> 65535]]
ForeignSignal == NEC(IR_ZERO + 1)

CommandSignals == {NEC(c) : c \in KnownCodes} \cup {RepeatSignal, ForeignSignal}

InitCommands == InitProgram /\ rtc = [Hour |-> 14, Minute |-> 10]

TickCommands == pc = "wake" /\ irrecv.held /\ irCtr < CommandTicks /\ TimerISR

KeyCommands ==
  /\ pc = "wake"
  /\ power = "run"
  /\ irCtr < CommandTicks
  /\ \E sig \in CommandSignals : IRSignal(sig)

NextCommands == TickCommands \/ KeyCommands \/ LoopWake \/ HandleIRresults \/ LoopRender

SpecCommands == InitCommands /\ [][NextCommands]_vars

\* the pass of handleIRresults that interprets a pending NEC value
InterpretsNEC == HandlesPending /\ irResults.decode_type = "NEC"

\* C18: a code received under NEC whose lower 16 bits match none of the 15
\* table entries changes no setting: mode, frame rate, hue, brightness,
\* schedule-active, both auto-cycle flags and the confirmation-pending flag
\* all keep their values.
C18_UnknownCodeIgnored ==
  [][ (InterpretsNEC /\ irResults.value.lo \notin KnownCodes) =>
        UNCHANGED <<ledMode, fps, hue, newBrightness, isScheduleActive, autoCycleHue,
                    autoCycleBrightness, blinkToConfirm>> ]_vars

\* the repeat code has been interpreted in another mode than the clock face
C18_Witness ==
  /\ hist.last.lo = RepeatSignal.value.lo
  /\ ~shouldEvaluateIRresults
  /\ pc = "render"
  /\ ledMode = LED_MODE_MATRIX
  /\ fps = 25

\* the eight set-mode cases of the switch: code, mode and frame rate
ModeCommands ==
  {[code |-> IR_ZERO, mode |-> LED_MODE_NORMAL, fps |-> 25],
   [code |-> IR_ONE, mode |-> LED_MODE_RAINBOW, fps |-> 60],
   [code |-> IR_TWO, mode |-> LED_MODE_RAINBOW_GLITTER, fps |-> 60],
   [code |-> IR_THREE, mode |-> LED_MODE_CONFETTI, fps |-> 60],
   [code |-> IR_FOUR, mode |-> LED_MODE_SINELON, fps |-> 60],
   [code |-> IR_FIVE, mode |-> LED_MODE_BPM, fps |-> 60],
   [code |-> IR_SIX, mode |-> LED_MODE_JUGGLE, fps |-> 60],
   [code |-> IR_SEVEN, mode |-> LED_MODE_MATRIX, fps |-> 25]}

ModeCodes == {m.code : m \in ModeCommands}

\* C19: each recognized code has exactly one effect and leaves every other
\* setting unchanged: a mode code sets ledMode and fps to its pair and nothing
\* else; volume up/down change only the brightness; up/down change only the
\* hue; POWER, AUTO_HUE and AUTO_BRIGHTNESS negate only isScheduleActive,
\* autoCycleHue and autoCycleBrightness and set blinkToConfirm; and a toggle
\* interpreted right after the same toggle puts the flag back to what it was
\* before the first of the two.
C19_OneEffectPerCode ==
  [][ InterpretsNEC =>
        LET c == irResults.value.lo
        IN /\ \A m \in ModeCommands :
                c = m.code =>
                  /\ ledMode' = m.mode
                  /\ fps' = m.fps
                  /\ UNCHANGED <<newBrightness, hue, isScheduleActive, autoCycleHue,
                                 autoCycleBrightness, blinkToConfirm>>
           /\ c \in {IR_VOL_UP, IR_VOL_DOWN} =>
                UNCHANGED <<ledMode, fps, hue, isScheduleActive, autoCycleHue,
                            autoCycleBrightness, blinkToConfirm>>
           /\ c \in {IR_UP, IR_DOWN} =>
                UNCHANGED <<ledMode, fps, newBrightness, isScheduleActive, autoCycleHue,
                            autoCycleBrightness, blinkToConfirm>>
           /\ c = IR_POWER =>
                /\ isScheduleActive' = ~isScheduleActive
                /\ blinkToConfirm'
                /\ UNCHANGED <<ledMode, fps, newBrightness, hue, autoCycleHue,
                               autoCycleBrightness>>
                /\ hist.last.lo = IR_POWER => isScheduleActive' = hist.last.schedule
           /\ c = IR_AUTO_HUE =>
                /\ autoCycleHue' = ~autoCycleHue
                /\ blinkToConfirm'
                /\ UNCHANGED <<ledMode, fps, newBrightness, hue, isScheduleActive,
                               autoCycleBrightness>>
                /\ hist.last.lo = IR_AUTO_HUE => autoCycleHue' = hist.last.autoHue
           /\ c = IR_AUTO_BRIGHTNESS =>
                /\ autoCycleBrightness' = ~autoCycleBrightness
                /\ blinkToConfirm'
                /\ UNCHANGED <<ledMode, fps, newBrightness, hue, isScheduleActive,
                               autoCycleHue>>
                /\ hist.last.lo = IR_AUTO_BRIGHTNESS =>
                     autoCycleBrightness' = hist.last.autoBrightness ]_vars

\* a mode code has been interpreted after the hue was moved off its initial
\* value, and the hue is still where the hue command left it
C19_Witness ==
  /\ hist.last.lo = IR_SEVEN
  /\ ledMode = LED_MODE_MATRIX
  /\ fps = 25
  /\ hue = LED_HUE_STEP
  /\ hist.ups = 1
  /\ pc = "render"
  /\ ~shouldEvaluateIRresults

\* ------------------------------------------------------------------------
\* The active mode.  Two mode keys, one key of each other kind, the repeat
\* code and a signal of no protocol, in the afternoon and at night; the timer
\* ticks with or without a captured signal, so that a cooldown runs out.
\* ------------------------------------------------------------------------
ModeSignals ==
  {NEC(c) : c \in {IR_ZERO, IR_SIX, IR_VOL_UP, IR_UP, IR_POWER}}
    \cup {RepeatSignal, UnknownSignal}

InitMode ==
  InitProgram /\ rtc \in {[Hour |-> 14, Minute |-> 10], [Hour |-> 23, Minute |-> 0]}

TickMode == pc = "wake" /\ irCtr < ModeTicks /\ TimerISR

\* IRSignal, counted
KeyMode ==
  /\ pc = "wake"
  /\ power = "run"
  /\ hist.keys < ModeKeys
  /\ ~irrecv.held
  /\ \E sig \in ModeSignals :
       irrecv' = [held |-> TRUE, decode_type |-> sig.decode_type, value |-> sig.value]
  /\ hist' = [hist EXCEPT !.keys = @ + 1]
  /\ UNCHANGED <<rtcVars, irVars, ledVars, dt, shown>>
  /\ UNCHANGED <<rtc, strip, stripBrightness, power, alarmOn, pc>>

NextMode == TickMode \/ KeyMode \/ LoopWake \/ HandleIRresults \/ LoopRender \/ isrAlarm

SpecMode == InitMode /\ [][NextMode]_vars

\* C20: ledMode changes only in a pass of handleIRresults that interprets one
\* of the eight mode codes, and then to that code's mode; every other step
\* (a tick, a render pass, a blanking, going to sleep and waking up, the end
\* of a cooldown, any other command, a code outside the table) leaves it
\* alone; and ledMode is always one of the modes 0..7.
C20_ModeOnlyBySetMode ==
  /\ [](ledMode \in LED_MODE_NORMAL .. LED_MODE_MATRIX)
  /\ [][ ledMode' # ledMode =>
           /\ InterpretsNEC
           /\ \E m \in ModeCommands : irResults.value.lo = m.code /\ ledMode' = m.mode ]_vars

\* the clock has gone to sleep in the juggle mode and woken up, and a
\* cooldown has run out since
C20_Witness ==
  /\ ledMode = LED_MODE_JUGGLE
  /\ power = "run"
  /\ isPowerOffInitialized
  /\ hist.since >= IR_PAUSE
  /\ ~pauseAnimations

\* ------------------------------------------------------------------------
\* The tick handler.  The timer fires between any two statements of loop(),
\* with the tick counter near its start or near its wrap, while a mode key,
\* the schedule key and signals of no protocol come in.
\* ------------------------------------------------------------------------
TickSignals == {NEC(IR_ONE), NEC(IR_POWER), UnknownSignal}

InitTick ==
  /\ \E ctr \in {0, Byte - 2} : InitState(20, 0, ctr, FALSE, FALSE)
  /\ rtc = [Hour |-> 14, Minute |-> 10]

TickTick == (irCtr >= Byte - 2 \/ irCtr < TickTicks) /\ TimerISR

KeyTick == power = "run" /\ \E sig \in TickSignals : IRSignal(sig)

NextTick == TickTick \/ KeyTick \/ LoopWake \/ HandleIRresults \/ LoopRender

SpecTick == InitTick /\ [][NextTick]_vars

\* a step of the timer handler: the counter moves and loop() stays where it is
TickStep == irCtr' # irCtr /\ pc' = pc

\* C21: one execution of the tick handler sets updateTime, sets
\* shouldEvaluateIRresults to what the decoder returns and adds one to irCtr
\* modulo 256; it leaves the mode, the frame rate, the hue, the brightness,
\* the schedule flag, both auto-cycle flags, pauseAnimations, both guard
\* flags, the pixel buffer and the strip as they are.
C21_TickOnlySignals ==
  [][ TickStep =>
        /\ updateTime'
        /\ shouldEvaluateIRresults' = irrecv.held
        /\ irCtr' = (irCtr + 1) % Byte
        /\ UNCHANGED <<ledMode, fps, hue, newBrightness, oldBrightness, isScheduleActive,
                       autoCycleHue, autoCycleBrightness, blinkToConfirm, pauseAnimations,
                       isTimeUpdateRunning, evaluatingIRresults, leds, strip,
                       stripBrightness>> ]_vars

\* the counter has wrapped to 0 on a tick that found a key captured, in the
\* rainbow mode
C21_Witness ==
  /\ irCtr = 0
  /\ updateTime
  /\ shouldEvaluateIRresults
  /\ irResults.decode_type = "NEC"
  /\ ledMode = LED_MODE_RAINBOW

\* ------------------------------------------------------------------------
\* The guard flags.  handleDisplayTime and handleIRresults as functions of
\* the state they are called in: the loop runs from states in which either
\* guard flag is as a call from inside a running pass would find it, on the
\* clock face and in the rainbow mode, with a brightness key, a mode key and
\* signals of no protocol.
\* ------------------------------------------------------------------------
GuardSignals == {NEC(IR_VOL_UP), NEC(IR_ONE), UnknownSignal}

InitGuards ==
  /\ \E busyTime \in BOOLEAN, busyIR \in BOOLEAN : InitState(20, 0, 0, busyTime, busyIR)
  /\ rtc = [Hour |-> 14, Minute |-> 10]

TickGuards == pc = "wake" /\ irCtr < GuardTicks /\ TimerISR

KeyGuards == pc = "wake" /\ \E sig \in GuardSignals : IRSignal(sig)

NextGuards == TickGuards \/ KeyGuards \/ LoopWake \/ HandleIRresults \/ LoopRender

SpecGuards == InitGuards /\ [][NextGuards]_vars

\* a call of handleIRresults that finds a signal pending, and a call of
\* handleDisplayTime (from handleLeds, on the clock face) that finds a
\* repaint asked for
IRAttempt == pc = "ir" /\ pc' = "render" /\ shouldEvaluateIRresults

DisplayAttempt ==
  /\ pc = "render"
  /\ pc' = "wake"
  /\ ~pauseAnimations
  /\ ~shouldGoToSleep
  /\ ledMode = LED_MODE_NORMAL
  /\ updateTime

\* C22: a call of handleIRresults made while evaluatingIRresults is set
\* changes nothing, the pending signal included; a call of handleDisplayTime
\* made while isTimeUpdateRunning is set changes nothing, the repaint request
\* included, so that handleLeds flushes the buffer as it was plus its
\* overlays; and no step sets either guard flag from a state in which it is
\* clear, so no pass is ever found in progress by a later call.
C22_ReentrantCallsDropped ==
  /\ [][ (IRAttempt /\ evaluatingIRresults) =>
           /\ UNCHANGED <<rtcVars, irVars, ledVars>>
           /\ UNCHANGED <<rtc, irrecv, strip, stripBrightness, power, alarmOn>> ]_vars
  /\ [][ (DisplayAttempt /\ isTimeUpdateRunning) =>
           /\ UNCHANGED <<updateTime, isTimeUpdateRunning, t, dt, shown>>
           /\ leds' = Overlay(leds) ]_vars
  /\ [][ ~evaluatingIRresults => ~evaluatingIRresults' ]_vars
  /\ [][ ~isTimeUpdateRunning => ~isTimeUpdateRunning' ]_vars

\* a call of handleIRresults has just left a pending key uninterpreted, and
\* the call of handleDisplayTime that follows will find its guard set too
C22_Witness ==
  /\ pc = "render"
  /\ evaluatingIRresults
  /\ isTimeUpdateRunning
  /\ shouldEvaluateIRresults
  /\ irResults.decode_type = "NEC"
  /\ irResults.value.lo = IR_ONE
  /\ updateTime
  /\ ledMode = LED_MODE_NORMAL

\* ------------------------------------------------------------------------
\* Commands during a cooldown.  Signals of no protocol, a mode key, a
\* brightness key and the schedule key, in the afternoon and at night; the
\* timer fires between any two statements of loop().
\* ------------------------------------------------------------------------
CutSignals == {UnknownSignal, NEC(IR_ONE), NEC(IR_VOL_UP), NEC(IR_POWER)}

InitCut ==
  InitProgram /\ rtc \in {[Hour |-> 14, Minute |-> 10], [Hour |-> 23, Minute |-> 0]}

TickCut == irCtr < CutTicks /\ TimerISR

\* IRSignal, counted
KeyCut ==
  /\ power = "run"
  /\ hist.keys < CutKeys
  /\ ~irrecv.held
  /\ \E sig \in CutSignals :
       irrecv' = [held |-> TRUE, decode_type |-> sig.decode_type, value |-> sig.value]
  /\ hist' = [hist EXCEPT !.keys = @ + 1]
  /\ UNCHANGED <<rtcVars, irVars, ledVars, dt, shown>>
  /\ UNCHANGED <<rtc, strip, stripBrightness, power, alarmOn, pc>>

NextCut == TickCut \/ KeyCut \/ LoopWake \/ HandleIRresults \/ LoopRender \/ isrAlarm

SpecCut == InitCut /\ [][NextCut]_vars

\* the pixels the overlays of handleLeds may write
OverlayPixels == PositionsOf(A_CHK) \cup {SCHEDULE.led}

\* C23: a NEC command interpreted while pauseAnimations is set clears
\* pauseAnimations in the same call, and the third statement of the same
\* loop iteration takes the branch of a clock that is not paused: it
\* evaluates the schedule and, unless the schedule says dark, renders and
\* flushes with the mode and the brightness the command has left (the
\* rainbow on the strip right after the rainbow key, the strip brightness
\* equal to newBrightness), however few ticks the cooldown has lasted.
C23_CommandEndsCooldown ==
  /\ [][ (InterpretsNEC /\ pauseAnimations) => (~pauseAnimations' /\ pc' = "render") ]_vars
  /\ [](pc = "render" /\ hist.fresh => ~pauseAnimations)
  /\ [][ (pc = "render" /\ pc' = "wake" /\ hist.fresh /\ hist.last.paused) =>
           /\ hist'.lastEval = IF shouldGoToSleep THEN "dark" ELSE "awake"
           /\ ~shouldGoToSleep =>
                /\ stripBrightness' = newBrightness'
                /\ ledMode = LED_MODE_RAINBOW =>
                     \A p \in Pixels \ OverlayPixels : strip'[p] = (hue + (7 * p)) % Byte ]_vars

\* the rainbow is on the strip after the rainbow key was interpreted one
\* tick into a cooldown
C23_Witness ==
  /\ pc = "wake"
  /\ hist.fresh
  /\ hist.last.paused
  /\ hist.last.lo = IR_ONE
  /\ irCtr = 1
  /\ ~pauseAnimations
  /\ hist.lastEval = "awake"
  /\ strip[1] \in 0 .. (Byte - 1)

\* ------------------------------------------------------------------------
\* Pixel indices.  setColorForWord and setColorForDigit over every value
\* their position fields can hold, and the row copy of matrix().
\* ------------------------------------------------------------------------
\* the values of a uint8_t position of a Word and of the uint16_t position
\* of a Digit
WordPositions == 0 .. (Byte - 1)
DigitPositions == 0 .. ((2 ^ 16) - 1)

\* every index the two loops of matrix() read or write
MatrixIndices ==
  UNION {{MatrixDst(i, j), MatrixSrc(i, j)} :
           i \in 1 .. (LED_ROWS - 2), j \in 1 .. (LED_COLUMNS - 1)}

InitPixels == InitProgram /\ rtc = [Hour |-> 14, Minute |-> 10]

\* one call of setColorForWord with a one-position word / of
\* setColorForDigit, on the buffer of the start; hist.wrote is the set of
\* indices the call writes
ProbeWord ==
  /\ hist.probe = NoIdx
  /\ \E v \in WordPositions :
       /\ leds' = setColorForWord(leds, WORD("?", <<v>>), White)
       /\ hist' = [hist EXCEPT !.probe = v, !.wrote = WordPixels(WORD("?", <<v>>))]
  /\ UNCHANGED <<rtcVars, irVars, settingVars, dt, shown>>
  /\ UNCHANGED <<oldBrightness, incBrightness, envVars>>

ProbeDigit ==
  /\ hist.probe = NoIdx
  /\ \E v \in DigitPositions :
       /\ leds' = setColorForDigit(leds, [text |-> "?", led |-> v], hue)
       /\ hist' = [hist EXCEPT !.probe = v, !.wrote = DigitPixels([text |-> "?", led |-> v])]
  /\ UNCHANGED <<rtcVars, irVars, settingVars, dt, shown>>
  /\ UNCHANGED <<oldBrightness, incBrightness, envVars>>

NextPixels == ProbeWord \/ ProbeDigit

SpecPixels == InitPixels /\ [][NextPixels]_vars

ModeFps(mode) == (CHOOSE m \in ModeCommands : m.mode = mode).fps

\* C25: in every reachable state, the initial one included, fps is the
\* frame rate the command table pairs with the active mode.
C25_FpsOfActiveMode == fps = ModeFps(ledMode)

\* ------------------------------------------------------------------------
\* The loop during a cooldown
\* ------------------------------------------------------------------------
\* C26: a pass of loop() that finds pauseAnimations set updates nothing of
\* the display: it runs no render pass and no blanking (buffer, hue,
\* brightness, blinkToConfirm and updateTime stay), hands nothing to the
\* driver (strip and strip brightness stay), does not evaluate the schedule
\* (no read of the RTC, no verdict) and does not enter low power.
C26_NoDisplayUpdateWhilePaused ==
  [][ (pc = "render" /\ pc' = "wake" /\ pauseAnimations) =>
        /\ UNCHANGED <<leds, blinkToConfirm, hue, newBrightness, oldBrightness,
                       incBrightness, updateTime, isTimeUpdateRunning, dt, shown>>
        /\ UNCHANGED <<strip, stripBrightness>>
        /\ UNCHANGED <<t, isPowerOffInitialized>>
        /\ hist'.lastEval = hist.lastEval
        /\ UNCHANGED <<power, alarmOn>> ]_vars

\* a paused pass of loop() has gone by with a repaint due and the schedule
\* active in the afternoon: the display still shows what the last render
\* pass flushed
C26_Witness ==
  /\ pc = "wake"
  /\ pauseAnimations
  /\ updateTime
  /\ isScheduleActive
  /\ rtc.Hour = 14
  /\ hist.lastEval = "awake"
  /\ power = "run"
  /\ strip # AllBlack

\* ------------------------------------------------------------------------
\* What a render pass starts from
\* ------------------------------------------------------------------------
\* a pass of loop() that calls handleLeds
RenderPass ==
  /\ pc = "render"
  /\ pc' = "wake"
  /\ ~pauseAnimations
  /\ ~shouldGoToSleep

\* the time drawn on a black buffer
TimeOnCleared(g) ==
  PaintDigits(PaintWords(AllBlack, DisplayTimeWords(rtc, g), hue),
              DisplayTimeDigits(rtc, g), hue)

\* what the active mode draws with the draws d when it starts from a black
\* buffer
ModeOnCleared(d) ==
  CASE ledMode = LED_MODE_NORMAL -> IF DisplayTimeRuns THEN TimeOnCleared(d.g) ELSE AllBlack
    [] ledMode = LED_MODE_RAINBOW -> rainbow(AllBlack, hue)
    [] ledMode = LED_MODE_RAINBOW_GLITTER -> rainbowWithGlitter(AllBlack, hue, d.glitter)
    [] ledMode = LED_MODE_CONFETTI -> confetti(AllBlack, d.pos)
    [] ledMode = LED_MODE_SINELON -> sinelon(AllBlack, d.pos)
    [] ledMode = LED_MODE_BPM -> bpm(AllBlack)
    [] ledMode = LED_MODE_JUGGLE -> juggle(AllBlack, d.dots)
    [] ledMode = LED_MODE_MATRIX -> matrix(AllBlack, d.col)
    [] OTHER -> AllBlack

\* the pass clears or overwrites every pixel: handleDisplayTime runs, or the
\* mode is one that assigns every pixel
PassOverwrites ==
  \/ ledMode = LED_MODE_NORMAL /\ DisplayTimeRuns
  \/ ledMode \in {LED_MODE_RAINBOW, LED_MODE_RAINBOW_GLITTER, LED_MODE_BPM}

C28_WakeFlagClearedFirst ==
  /\ [][ (power = "down" /\ power' = "run") => (isrAlarmWasCalled' /\ pc' = "wake") ]_vars
  /\ [][ (isrAlarmWasCalled /\ pc = "wake" /\ pc' # pc) =>
           /\ ~isrAlarmWasCalled'
           /\ pc' = "ir"
           /\ UNCHANGED <<settingVars, irResults, shouldEvaluateIRresults, pauseAnimations,
                          leds, strip, stripBrightness, t, isPowerOffInitialized, power>>
           /\ hist'.lastEval = hist.lastEval ]_vars

\* the board has been woken by the alarm and loop() has cleared the flag;
\* the display is still blank
C28_Witness ==
  /\ power = "run"
  /\ alarmOn
  /\ pc = "ir"
  /\ ~isrAlarmWasCalled
  /\ isPowerOffInitialized
  /\ hist.lastEval = "dark"
  /\ strip = AllBlack

\* ------------------------------------------------------------------------
\* The overlays of a render pass
\* ------------------------------------------------------------------------
\* the codes of the three toggles
ToggleCodes == {IR_POWER, IR_AUTO_HUE, IR_AUTO_BRIGHTNESS}

\* C29: every toggle sets blinkToConfirm and nothing else sets it; only a
\* render pass clears it, and every render pass leaves it cleared.  A render
\* pass that finds it set hands the driver a buffer with every pixel of CHK
\* white; a pass that finds it clear leaves the pixels of CHK as the mode
\* has drawn them.  Every render pass made with the schedule active lights
\* the schedule indicator.
C29_ConfirmationShownOnce ==
  /\ [][ (InterpretsNEC /\ irResults.value.lo \in ToggleCodes) => blinkToConfirm' ]_vars
  /\ [][ (~blinkToConfirm /\ blinkToConfirm') =>
           (InterpretsNEC /\ irResults.value.lo \in ToggleCodes) ]_vars
  /\ [][ (blinkToConfirm /\ ~blinkToConfirm') => RenderPass ]_vars
  /\ [][ RenderPass =>
           /\ ~blinkToConfirm'
           /\ blinkToConfirm => \A p \in PositionsOf(A_CHK) : strip'[p] = White
           /\ ~blinkToConfirm =>
                \E d \in ModeDraws :
                  \A p \in PositionsOf(A_CHK) \ {SCHEDULE.led} :
                    strip'[p] = AfterMode(d).leds[p]
           /\ isScheduleActive => strip'[SCHEDULE.led] # Black ]_vars

\* the schedule key has been confirmed: the check mark is white on the
\* strip, the indicator is lit and blinkToConfirm is clear again
C29_Witness ==
  /\ pc = "wake"
  /\ hist.last.lo = IR_POWER
  /\ isScheduleActive
  /\ ~blinkToConfirm
  /\ \A p \in PositionsOf(A_CHK) : strip[p] = White
  /\ strip[SCHEDULE.led] # Black

\* ------------------------------------------------------------------------
\* The upper half of a decoded value.  The same keys with the prefix of the
\* clock's remote control, with a zero upper half and with all bits set.
\* ------------------------------------------------------------------------
HighHalves == {0, IR_PREFIX, 65535}

LowCodes == {IR_ONE, IR_VOL_UP, IR_POWER, IR_ZERO + 1}

LowSignals ==
  {[decode_type |-> "NEC", value |-> [hi |-> h, lo |-> c]] : h \in HighHalves, c \in LowCodes}

InitLow == InitProgram /\ rtc = [Hour |-> 14, Minute |-> 10]

TickLow == pc = "wake" /\ irrecv.held /\ irCtr < LowTicks /\ TimerISR

KeyLow ==
  /\ pc = "wake"
  /\ power = "run"
  /\ irCtr < LowTicks
  /\ \E sig \in LowSignals : IRSignal(sig)

NextLow == TickLow \/ KeyLow \/ LoopWake \/ HandleIRresults \/ LoopRender

SpecLow == InitLow /\ [][NextLow]_vars

\* C30: the step that interprets a NEC value is also the step the
\* interpretation of every other value with the same lower 16 bits takes
\* from the same state: the settings it leaves are the same whatever the
\* upper 16 bits.
C30_LowerHalfDecides ==
  [][ InterpretsNEC =>
        \A h \in HighHalves :
          evaluateIRResult([hi |-> h, lo |-> irResults.value.lo]) ]_vars

\* the rainbow key has been interpreted from a value whose upper half is 0
C30_Witness ==
  /\ irResults.decode_type = "NEC"
  /\ irResults.value = [hi |-> 0, lo |-> IR_ONE]
  /\ hist.fresh
  /\ ledMode = LED_MODE_RAINBOW

\* ------------------------------------------------------------------------
\* The repaint as a function of the time
\* ------------------------------------------------------------------------
\* a run of handleDisplayTime that repaints
RepaintStep == updateTime /\ ~updateTime'

\* C31: every repaint lights IT and IS, and the lit positions it leaves
\* depend on the time alone: a repaint of the time the buffer already shows
\* leaves the same positions lit.
C31_LitDependsOnTimeOnly ==
  [][ RepaintStep =>
        /\ (PositionsOf(A_IT) \cup PositionsOf(A_IS)) \subseteq Lit'
        /\ (Painted /\ t = rtc) => Lit' = Lit ]_vars

\* ------------------------------------------------------------------------
\* Repaints and ticks.  hist.repaints counts the repaints since the last
\* tick.
\* ------------------------------------------------------------------------
\* C32: handleDisplayTime repaints only when it finds updateTime set, and
\* the repaint clears it; between two consecutive ticks there is at most one
\* repaint, wherever the ticks fall in loop().
C32_OneRepaintPerTick ==
  /\ [](hist.repaints <= 1)
  /\ [][ hist'.repaints > hist.repaints => (updateTime /\ ~updateTime') ]_vars

\* the second tick has been answered with its one repaint
C32_Witness ==
  /\ hist.repaints = 1
  /\ irCtr = 2
  /\ ~updateTime
  /\ Painted
  /\ pc = "wake"

\* ------------------------------------------------------------------------
\* Ticks inside handleIRresults.  The handler in two steps, up to the
\* delay(50) and from irrecv.resume() on, with the timer free to fire in
\* between (delay() runs with interrupts enabled).  hist.applied counts the
\* calls of evaluateIRResult since the last capture.
\* ------------------------------------------------------------------------
RaceSignals ==
  {NEC(IR_ZERO), NEC(IR_ONE), NEC(IR_VOL_UP), NEC(IR_POWER), UnknownSignal}

InitRace == InitProgram /\ rtc = [Hour |-> 14, Minute |-> 10]

\* handleIRresults() up to delay(50): the early returns, the work-around
\* for UNKNOWN, or the interpretation of a NEC value
HandleIRresultsBegin ==
  /\ power = "run"
  /\ pc = "ir"
  /\ IF ~shouldEvaluateIRresults \/ evaluatingIRresults
       THEN /\ pc' = "render"
            /\ UNCHANGED <<irVars, settingVars>>
            /\ hist' = [hist EXCEPT !.fresh = FALSE]
     ELSE IF irResults.decode_type = "UNKNOWN"
       THEN /\ pc' = "resume"
            /\ irCtr' = 0
            /\ pauseAnimations' = TRUE
            /\ UNCHANGED <<irResults, shouldEvaluateIRresults, evaluatingIRresults>>
            /\ hist' = [hist EXCEPT !.since = 0, !.fresh = FALSE]
            /\ UNCHANGED settingVars
     ELSE IF irResults.decode_type # "NEC"
       THEN /\ pc' = "render"
            /\ UNCHANGED <<irVars, settingVars>>
            /\ hist' = [hist EXCEPT !.fresh = FALSE]
     ELSE /\ pc' = "resume"
          /\ CommandEndsPause
          /\ shouldEvaluateIRresults' = FALSE
          /\ evaluatingIRresults' = TRUE
          /\ evaluateIRResult(irResults.value)
          /\ hist' = [hist EXCEPT !.since = NoIdx, !.fresh = TRUE, !.applied = @ + 1,
                                  !.last = [lo |-> irResults.value.lo,
                                            schedule |-> isScheduleActive,
                                            autoHue |-> autoCycleHue,
                                            autoBrightness |-> autoCycleBrightness,
                                            paused |-> pauseAnimations,
                                  toNormal |-> LeavesAnimation]]
          /\ UNCHANGED <<irResults, irCtr>>
  /\ UNCHANGED <<updateTime, isrAlarmWasCalled, isTimeUpdateRunning,
                 isPowerOffInitialized, t>>
  /\ UNCHANGED <<leds, oldBrightness, incBrightness>>
  /\ UNCHANGED <<rtc, irrecv, strip, stripBrightness, power, alarmOn>>
  /\ UNCHANGED <<dt, shown>>

\* HandleIRresultsEnd without evaluatingIRresults = false
HandleIRresultsEnd_KeepsGuard ==
  /\ power = "run"
  /\ pc = "resume"
  /\ pc' = "render"
  /\ irrecv' = DecoderIdle
  /\ UNCHANGED <<irResults, shouldEvaluateIRresults, irCtr, evaluatingIRresults,
                 pauseAnimations, autoCycleHue, autoCycleBrightness>>
  /\ UNCHANGED <<rtcVars, ledVars, obsVars>>
  /\ UNCHANGED <<rtc, strip, stripBrightness, power, alarmOn>>

\* handleIRresults() after delay(50): irrecv.resume(), and the guard flag
\* put back on the NEC path
HandleIRresultsEnd ==
  /\ power = "run"
  /\ pc = "resume"
  /\ pc' = "render"
  /\ irrecv' = DecoderIdle
  /\ evaluatingIRresults' = FALSE
  /\ UNCHANGED <<irResults, shouldEvaluateIRresults, irCtr, pauseAnimations,
                 autoCycleHue, autoCycleBrightness>>
  /\ UNCHANGED <<rtcVars, ledVars, obsVars>>
  /\ UNCHANGED <<rtc, strip, stripBrightness, power, alarmOn>>

TickRace == irCtr < RaceTicks /\ TimerISR

\* IRSignal, counted; a capture starts the count of interpretations anew
KeyRace ==
  /\ power = "run"
  /\ hist.keys < RaceKeys
  /\ ~irrecv.held
  /\ \E sig \in RaceSignals :
       irrecv' = [held |-> TRUE, decode_type |-> sig.decode_type, value |-> sig.value]
  /\ hist' = [hist EXCEPT !.keys = @ + 1, !.applied = 0]
  /\ UNCHANGED <<rtcVars, irVars, ledVars, dt, shown>>
  /\ UNCHANGED <<rtc, strip, stripBrightness, power, alarmOn, pc>>

NextRace ==
  TickRace \/ KeyRace \/ LoopWake \/ HandleIRresultsBegin \/ HandleIRresultsEnd \/ LoopRender

SpecRace == InitRace /\ [][NextRace]_vars

\* C33: a captured signal is interpreted at most once: evaluateIRResult is
\* called at most once between one capture and the next, wherever the ticks
\* fall, the time between the clearing of shouldEvaluateIRresults and
\* irrecv.resume() included.
C33_InterpretedAtMostOnce == hist.applied <= 1

\* C34: a mode command that takes the clock from an animation back to
\* NORMAL finds updateTime set and leaves it set, and the render pass of the
\* same loop iteration repaints: it hands the driver the time drawn on a
\* cleared buffer (with the overlays) and clears updateTime.
C34_BackToNormalRepaints ==
  /\ [][ (ledMode # LED_MODE_NORMAL /\ ledMode' = LED_MODE_NORMAL) =>
           (updateTime /\ updateTime') ]_vars
  /\ [][ (RenderPass /\ hist.fresh /\ hist.last.toNormal) =>
           /\ ledMode = LED_MODE_NORMAL
           /\ updateTime
           /\ ~updateTime'
           /\ strip' \in {Overlay(TimeOnCleared(g)) : g \in GarbageFor(rtc)} ]_vars

\* the clock is back from the rainbow and shows the time
C34_Witness ==
  /\ pc = "wake"
  /\ hist.fresh
  /\ hist.last.toNormal
  /\ ledMode = LED_MODE_NORMAL
  /\ ~updateTime
  /\ Painted
  /\ strip = leds
  /\ strip[0] = hue

\* C35: neither guard flag outlives its call: both are clear at the start
\* of every loop iteration and whenever handleIRresults or a render pass is
\* entered; evaluatingIRresults is set only inside handleIRresults, between
\* the interpretation and irrecv.resume(), and the step that leaves the
\* handler clears it.
C35_GuardsNeverLeftSet ==
  /\ [](pc \in {"wake", "ir", "render"} => (~isTimeUpdateRunning /\ ~evaluatingIRresults))
  /\ [](~isTimeUpdateRunning)
  /\ [][ (pc = "resume" /\ pc' # pc) => ~evaluatingIRresults' ]_vars

\* a command has been interpreted and the time repainted, and loop() starts
\* over with both guards clear
C35_Witness ==
  /\ pc = "wake"
  /\ hist.fresh
  /\ hist.applied = 1
  /\ Painted
  /\ ~updateTime
  /\ ~isTimeUpdateRunning
  /\ ~evaluatingIRresults

\* ------------------------------------------------------------------------
\* Progress.  The runs of SpecCut with loop() running on for ever and the
\* alarm ending every suspension.
\* ------------------------------------------------------------------------
\* the alarm interrupt while the board is suspended
AlarmWakes == power = "down" /\ isrAlarm

SpecLive ==
  /\ SpecCut
  /\ WF_vars(LoopWake)
  /\ WF_vars(HandleIRresults)
  /\ WF_vars(LoopRender)
  /\ WF_vars(AlarmWakes)

\* a tick has reported a NEC signal and handleIRresults has not handled it
PendingNEC == shouldEvaluateIRresults /\ irResults.decode_type = "NEC"

\* handleIRresults has just interpreted a NEC value and cleared the flag
JustInterpreted == pc = "render" /\ hist.fresh /\ ~shouldEvaluateIRresults

\* C36: a pending NEC signal is eventually interpreted and the pending
\* flag cleared, when loop() keeps running and the alarm ends every
\* suspension.
C36_PendingCommandInterpreted == PendingNEC ~> JustInterpreted

\* a key is pending while the board is suspended
C36_Witness ==
  /\ PendingNEC
  /\ power = "down"
  /\ alarmOn
  /\ irrecv.held

\* ------------------------------------------------------------------------
\* The auto-cycle step after manual brightness commands
\* ------------------------------------------------------------------------
\* C37: after every auto-cycle brightness step of a render pass the
\* brightness, and with it the value handed to the driver, is within
\* AutoBrightnessLow .. AutoBrightnessHigh, whatever the brightness and the
\* direction before the step.
C37_AutoStepWithinRange ==
  [][ hist'.brightSteps > hist.brightSteps =>
        /\ newBrightness' \in AutoBrightnessLow .. AutoBrightnessHigh
        /\ stripBrightness' \in AutoBrightnessLow .. AutoBrightnessHigh ]_vars

\* ------------------------------------------------------------------------
\* Suspension and wake-up.  The runs of SpecCut, with the alarm firing when
\* the clock chip reaches the time alarm 2 is set to.
\* ------------------------------------------------------------------------
\* a wake-up time one hour before the window opens
WakeTime_BeforeWindow == [Hour |-> RTC_ALIVE_FROM - 1, Minute |-> 0]

\* RTC.setAlarm(ALM2_MATCH_HOURS, 0, RTC_WAKE_UP_MINS, RTC_WAKE_UP_HRS, 0)
WakeTime == [Hour |-> RTC_WAKE_UP_HRS, Minute |-> RTC_WAKE_UP_MINS]

\* the clock reaches the wake-up time while the board is suspended: the
\* alarm line falls and isrAlarm runs
AlarmAtWakeTime ==
  /\ power = "down"
  /\ alarmOn
  /\ rtc' = WakeTime
  /\ isrAlarmWasCalled' = TRUE
  /\ power' = "run"
  /\ UNCHANGED <<updateTime, isTimeUpdateRunning, isScheduleActive,
                 isPowerOffInitialized, t>>
  /\ UNCHANGED <<irVars, ledVars, obsVars>>
  /\ UNCHANGED <<irrecv, strip, stripBrightness, alarmOn, pc>>

NextWake == TickCut \/ KeyCut \/ LoopWake \/ HandleIRresults \/ LoopRender \/ AlarmAtWakeTime

SpecWake ==
  /\ InitCut
  /\ [][NextWake]_vars
  /\ WF_vars(TickCut)
  /\ WF_vars(LoopWake)
  /\ WF_vars(HandleIRresults)
  /\ WF_vars(LoopRender)
  /\ WF_vars(AlarmAtWakeTime)

\* the next part of loop() can be executed
LoopCanStep == ENABLED (LoopWake \/ HandleIRresults \/ LoopRender)

\* C38: while the board is not suspended the next part of loop() can
\* always be executed; the board is suspended only by the blanking branch;
\* every suspension ends, and after it the schedule evaluates to not dark
\* and a render pass is made.
C38_NeverHalts ==
  /\ [](power = "run" => LoopCanStep)
  /\ [][ (power = "run" /\ power' = "down") => (pc = "render" /\ shouldGoToSleep) ]_vars
  /\ (power = "down") ~> (power = "run" /\ rtc = WakeTime /\ hist.lastEval = "awake")

\* the board has been woken at the wake-up time and shows the time again
C38_Witness ==
  /\ power = "run"
  /\ alarmOn
  /\ rtc = WakeTime
  /\ isScheduleActive
  /\ hist.lastEval = "awake"
  /\ ~isPowerOffInitialized
  /\ Painted
  /\ strip # AllBlack

\* ------------------------------------------------------------------------
\* The v0.2 sketch: its tables and its handleDisplayTime
\* ------------------------------------------------------------------------
\* const Word W_MINS[] of the v0.2 sketch
W_MINS_v02 ==
  << WORD("M5", <<29, 30, 31, 32>>), WORD("M10", <<21, 20, 19>>),
     WORD("M15", <<17, 16, 15, 14, 13, 12, 11>>),
     WORD("M20", <<23, 24, 25, 26, 27, 28>>),
     WORD("M25", <<23, 24, 25, 26, 27, 28, 29, 30, 31, 32>>),
     WORD("M30", <<6, 7, 8, 9>>) >>

\* const Word W_HOURS[] of the v0.2 sketch
W_HOURS_v02 ==
  << WORD("H12", <<60, 59, 58, 57, 56, 55>>), WORD("H1", <<73, 74, 75>>),
     WORD("H2", <<48, 49, 50>>), WORD("H3", <<65, 64, 63, 62, 61>>),
     WORD("H4", <<36, 35, 34, 33>>), WORD("H5", <<44, 45, 46, 47>>),
     WORD("H6", <<92, 93, 94>>), WORD("H7", <<87, 86, 85, 84, 83>>),
     WORD("H8", <<81, 80, 79, 78, 77>>), WORD("H9", <<51, 52, 53, 54>>),
     WORD("H10", <<89, 90, 91>>), WORD("H11", <<67, 68, 69, 70, 71, 72>>) >>

\* int idx = (mins > 30) ? int((MIN_PARTS - 1) - ((mins - 30) / MIN_STEP))
\*                       : int(mins / MIN_STEP);
MinuteIdx_v02(tm) ==
  IF tm.Minute > 30
    THEN (MIN_PARTS - 1) - ((tm.Minute - 30) \div MIN_STEP)
    ELSE tm.Minute \div MIN_STEP

\* W_HOURS[int(ceil(t.hour % 12)) + 1] : W_HOURS[int(ceil(t.hour % 12))]
HourIdx_v02(tm) ==
  IF tm.Minute > 30 THEN (tm.Hour % 12) + 1 ELSE tm.Hour % 12

DisplayTimeIdx_v02(tm) ==
  [ mins |-> IF showMinutes(tm.Minute) THEN MinuteIdx_v02(tm) ELSE NoIdx,
    hour |-> HourIdx_v02(tm),
    m1 |-> DigitM1(tm),
    m2 |-> DigitM2(tm) ]

\* the words the v0.2 handler hands to setColorForWord, in the order of
\* the calls
DisplayTimeWords_v02(tm, g) ==
  <<IT, IS>>
  \o (IF showMinutes(tm.Minute) THEN <<WordAt(W_MINS_v02, MinuteIdx_v02(tm), g)>> ELSE <<>>)
  \o (IF showMinutes(tm.Minute) THEN <<RelationWord(tm)>> ELSE <<>>)
  \o <<WordAt(W_HOURS_v02, HourIdx_v02(tm), g)>>
  \o <<DaytimeWord(tm)>>

\* the outcomes of the table reads of one run of the v0.2 handler
GarbageFor_v02(tm) ==
  IF /\ showMinutes(tm.Minute) => InTable(W_MINS_v02, MinuteIdx_v02(tm))
     /\ InTable(W_HOURS_v02, HourIdx_v02(tm))
     /\ InTable(DIGITS, DigitM1(tm))
     /\ InTable(DIGITS, DigitM2(tm))
    THEN {NoGarbage}
    ELSE Garbage

\* handleDisplayTime() of the v0.2 sketch; both early returns change nothing
HandleDisplayTime_v02 ==
  /\ \E g \in (IF DisplayTimeRuns THEN GarbageFor_v02(rtc) ELSE {NoGarbage}) :
       IF DisplayTimeRuns
         THEN /\ updateTime' = FALSE
              /\ t' = rtc
              /\ leds' = PaintDigits(PaintWords(AllBlack, DisplayTimeWords_v02(rtc, g), hue),
                                     DisplayTimeDigits(rtc, g), hue)
              /\ dt' = DisplayTimeIdx_v02(rtc)
              /\ shown' = Texts(DisplayTimeWords_v02(rtc, g)) \cup Texts(DisplayTimeDigits(rtc, g))
         ELSE UNCHANGED <<updateTime, t, leds, dt, shown>>
  /\ isTimeUpdateRunning' = (isTimeUpdateRunning /\ ~DisplayTimeRuns)
  /\ hist' = [hist EXCEPT !.repaints = @ + (IF DisplayTimeRuns THEN 1 ELSE 0)]
  /\ UNCHANGED <<isrAlarmWasCalled, isScheduleActive, isPowerOffInitialized>>
  /\ UNCHANGED <<irVars, envVars>>
  /\ UNCHANGED <<blinkToConfirm, fps, ledMode, hue, oldBrightness,
                 newBrightness, incBrightness>>

NextV02 == TickTime \/ HandleDisplayTime_v02

SpecV02 == InitTime /\ [][NextV02]_vars

\* C39: in the v0.2 sketch, for every hour in 0..23 and every minute above
\* 30, handleDisplayTime selects the hour word at index (hour + 1) mod 12,
\* an index inside the 12-entry table W_HOURS.
C39_HourIndexInsideTable ==
  (Painted /\ t.Minute > 30) =>
    /\ dt.hour = (t.Hour + 1) % 12
    /\ InTable(W_HOURS_v02, dt.hour)

\* ------------------------------------------------------------------------
\* The segment catalog on the strip: setColorForWord and setColorForDigit
\* over every entry of the catalog
\* ------------------------------------------------------------------------
MaxPaints == 2

\* every Word and every Digit the catalog defines
CatalogWords ==
  {IT, IS, TO, PAST, AM, PM, CHK}
    \cup {W_MINS[i] : i \in 1 .. Len(W_MINS)}
    \cup {W_HOURS[i] : i \in 1 .. Len(W_HOURS)}
CatalogDigits == {SCHEDULE} \cup {DIGITS[i] : i \in 1 .. Len(DIGITS)}

\* one call of setColorForWord / setColorForDigit with an entry of the
\* catalog, on the buffer as the calls before have left it; shown collects
\* the texts of the entries drawn, hist.wrote is what the call writes
PaintCatalogWord ==
  /\ Cardinality(shown) < MaxPaints
  /\ \E w \in CatalogWords :
       /\ leds' = setColorForWord(leds, w, IF w = CHK THEN White ELSE hue)
       /\ shown' = shown \cup {w.text}
       /\ hist' = [hist EXCEPT !.wrote = WordPixels(w)]
  /\ UNCHANGED <<rtcVars, irVars, settingVars, dt>>
  /\ UNCHANGED <<oldBrightness, incBrightness, envVars>>

PaintCatalogDigit ==
  /\ Cardinality(shown) < MaxPaints
  /\ \E d \in CatalogDigits :
       /\ leds' = setColorForDigit(leds, d, hue)
       /\ shown' = shown \cup {d.text}
       /\ hist' = [hist EXCEPT !.wrote = DigitPixels(d)]
  /\ UNCHANGED <<rtcVars, irVars, settingVars, dt>>
  /\ UNCHANGED <<oldBrightness, incBrightness, envVars>>

NextCatalog == PaintCatalogWord \/ PaintCatalogDigit

SpecCatalog == InitPixels /\ [][NextCatalog]_vars

\* C40: every position of every catalog entry (IT, IS, M5..M30, TO, PAST,
\* H1..H12, AM, PM, the ten digits, the schedule indicator and CHK) is
\* smaller than the pixel count, so the check ledNo < LED_PIXELS drops no
\* catalog position and every entry drawn is lit completely.
C40_CatalogInsideStrip ==
  /\ \A w \in CatalogWords : PositionsOf(w.leds) \subseteq Pixels
  /\ \A d \in CatalogDigits : d.led \in Pixels
  /\ \A w \in CatalogWords : w.text \in shown => PositionsOf(w.leds) \subseteq Lit
  /\ \A d \in CatalogDigits : d.text \in shown => d.led \in Lit

\* the last digit, at the highest position of the catalog, and the check
\* mark have been drawn
C40_Witness ==
  /\ shown = {"D9", "CHK"}
  /\ 120 \in Lit
  /\ PositionsOf(A_CHK) \subseteq Lit
  /\ hist.wrote # {}

====
